---- MODULE Spec2Model ----
(***************************************************************************)
(* Request-processing core of deployd: the Router (lib/router.js), the     *)
(* request Context (lib/context.js) and the error responder (lib/doh.js).  *)
(*                                                                         *)
(* Strings that the code inspects character by character (resource paths   *)
(* and request URLs) are sequences of one-character strings.               *)
(***************************************************************************)
EXTENDS Integers, Sequences, FiniteSets, TLC

\* ------------------------------------------------------------------ bounds
MaxRes == 3        \* resources registered on a router (matching)
MaxCand == 2       \* resources registered on the router that routes the request
MaxOps == 2        \* calls a handler makes after its invocation
MaxRouteCalls == 2 \* route() calls made for the one request

\* ------------------------------------------------------- strings and paths
PathRoot == <<"/">>
PathEmpty == <<>>
PathA == <<"/", "a">>
PathAB == <<"/", "a", "/", "b">>
PathB == <<"/", "b">>

Paths == {PathRoot, PathEmpty, PathA, PathAB, PathB}

UrlABC == <<"/", "a", "/", "b", "/", "c">>
UrlA == <<"/", "a">>
UrlAQ == <<"/", "a", "?", "c">>
UrlAo == <<"/", "a", "o">>
UrlO == <<"/", "o">>

Urls == {UrlABC, UrlA, UrlAQ, UrlAo, UrlO}

\* String.prototype.split('/').length: one more than the number of slashes
RECURSIVE CountSlash(_)
CountSlash(s) ==
  IF s = <<>> THEN 0
  ELSE (IF Head(s) = "/" THEN 1 ELSE 0) + CountSlash(Tail(s))

SplitLength(s) == CountSlash(s) + 1

\* specificness(resource): resource.path && resource.path !== '/' ? split('/').length : 0
specificness(path) ==
  IF path # <<>> /\ path # <<"/">> THEN SplitLength(path) ELSE 0

\* generateRegex: key is '' for the root path; the regex is ^key(?:[/?].*)?$
RegexKey(path) == IF path # <<>> /\ path # <<"/">> THEN path ELSE <<>>

IsPrefix(p, s) == Len(p) <= Len(s) /\ SubSeq(s, 1, Len(p)) = p

RegexTest(path, u) ==
  LET key == RegexKey(path) IN
    /\ IsPrefix(key, u)
    /\ \/ Len(u) = Len(key)
       \/ u[Len(key) + 1] \in {"/", "?"}

\* Array.prototype.filter over this.resources, as the indices kept
RECURSIVE FilterMatching(_, _, _)
FilterMatching(rs, u, i) ==
  IF i > Len(rs) THEN <<>>
  ELSE (IF RegexTest(rs[i], u) THEN <<i>> ELSE <<>>) \o FilterMatching(rs, u, i + 1)

\* Array.prototype.sort with comparator specificness(b) - specificness(a);
\* the engine's sort is stable: an element goes after every element that
\* does not compare greater than it.
\* (variant: an element goes before the elements it ties with)
RECURSIVE InsertSortedUnstable(_, _, _)
InsertSortedUnstable(rs, sorted, x) ==
  IF sorted = <<>> THEN <<x>>
  ELSE IF specificness(rs[Head(sorted)]) > specificness(rs[x])
       THEN <<Head(sorted)>> \o InsertSortedUnstable(rs, Tail(sorted), x)
       ELSE <<x>> \o sorted

RECURSIVE InsertSorted(_, _, _)
InsertSorted(rs, sorted, x) ==
  IF sorted = <<>> THEN <<x>>
  ELSE IF specificness(rs[Head(sorted)]) >= specificness(rs[x])
       THEN <<Head(sorted)>> \o InsertSorted(rs, Tail(sorted), x)
       ELSE <<x>> \o sorted

RECURSIVE SortFrom(_, _, _)
SortFrom(rs, todo, sorted) ==
  IF todo = <<>> THEN sorted
  ELSE SortFrom(rs, Tail(todo), InsertSorted(rs, sorted, Head(todo)))

SortBySpecificness(rs, idxs) == SortFrom(rs, idxs, <<>>)

\* the list matchResources computes when the cache does not answer
ComputeMatches(rs, u) == SortBySpecificness(rs, FilterMatching(rs, u, 1))

\* ------------------------------------------------------------------ errors
\* An error value: kind is what `instanceof Error` / typeof distinguish;
\* statusCode and status are 0 when the property is absent.
NoErr == [kind |-> "none", message |-> "", statusCode |-> 0, status |-> 0]
ErrBoom == [kind |-> "Error", message |-> "boom", statusCode |-> 0, status |-> 0]
ErrHttp == [kind |-> "Error", message |-> "denied", statusCode |-> 401, status |-> 0]
ErrObj == [kind |-> "object", message |-> "nope", statusCode |-> 403, status |-> 0]
ErrOdd == [kind |-> "Error", message |-> "moved", statusCode |-> 302, status |-> 0]

Errors == {ErrBoom, ErrHttp, ErrObj, ErrOdd}

\* the literal handle404 passes to the responder
ErrNotFound ==
  [kind |-> "object", message |-> "Resource not found", statusCode |-> 0, status |-> 0]

Truthy(e) == e # NoErr

\* ---------------------------------------------------------------- response
HeaderNames == {"Cache-Control", "Pragma", "Expires", "Content-Type", "Content-Length"}

EmptyBody == [type |-> "none", content |-> "", fields |-> {}]

ResInit ==
  [statusCode |-> 200,
   headers |-> [n \in HeaderNames |-> ""],
   headersSent |-> FALSE,
   writableEnded |-> FALSE,
   finished |-> FALSE,
   wireStatus |-> 0,
   body |-> EmptyBody,
   writer |-> "none"]

\* res.setHeader(name, value)
ResSetHeader(r, n, v) == [r EXCEPT !.headers[n] = v]

\* res.writeHead()/res.write(): the status line and the headers go out
ResFlush(r) ==
  IF r.headersSent THEN r
  ELSE [r EXCEPT !.headersSent = TRUE, !.wireStatus = r.statusCode]

\* res.end(body) by `who`: a second end writes nothing
(* variant: an ended response is written again *)
ResEndAgain(r, b, who) ==
  [r EXCEPT !.writableEnded = TRUE,
            !.finished = TRUE,
            !.headersSent = TRUE,
            !.wireStatus = IF r.headersSent THEN r.wireStatus ELSE r.statusCode,
            !.body = b,
            !.writer = who]

ResEnd(r, b, who) ==
  IF r.writableEnded THEN r
  ELSE [r EXCEPT !.writableEnded = TRUE,
                 !.finished = TRUE,
                 !.headersSent = TRUE,
                 !.wireStatus = IF r.headersSent THEN r.wireStatus ELSE r.statusCode,
                 !.body = b,
                 !.writer = who]

\* ------------------------------------------------------------- doh.js
normalizeStatus(e) ==
  LET status == IF e.statusCode # 0 THEN e.statusCode ELSE e.status
  IN  IF status >= 400 /\ status < 600 THEN status ELSE 500

normalizePayload(e) ==
  CASE e.kind = "none" -> [type |-> "json", content |-> "Unknown error", fields |-> {"message"}]
    [] e.kind = "string" -> [type |-> "json", content |-> e.message, fields |-> {"message"}]
    [] e.kind = "Error" -> [type |-> "json", content |-> e.message, fields |-> {"message"}]
    [] OTHER ->
         [type |-> "json",
          content |-> IF e.message # "" THEN e.message ELSE "Request failed",
          fields |-> {"message"}
                       \cup (IF e.statusCode # 0 THEN {"statusCode"} ELSE {})
                       \cup (IF e.status # 0 THEN {"status"} ELSE {})]

\* createResponder()(err, req, res)
(* variant: the status already on the response is not consulted *)
respondNoFallback(e, r, who) ==
  IF ~Truthy(e) \/ r.writableEnded THEN r
  ELSE LET status == normalizeStatus(e)
           r1 == IF ~r.headersSent
                 THEN ResSetHeader([r EXCEPT !.statusCode = status],
                                   "Content-Type", "application/json; charset=utf-8")
                 ELSE r
       IN  ResEnd(r1, normalizePayload(e), who)

respond(e, r, who) ==
  IF ~Truthy(e) \/ r.writableEnded THEN r
  ELSE LET n == normalizeStatus(e)
           status == IF n = 500 /\ r.statusCode >= 400 /\ r.statusCode < 600
                     THEN r.statusCode ELSE n
           r1 == IF ~r.headersSent
                 THEN ResSetHeader([r EXCEPT !.statusCode = status],
                                   "Content-Type", "application/json; charset=utf-8")
                 ELSE r
       IN  ResEnd(r1, normalizePayload(e), who)

\* --------------------------------------------------------- lib/context.js
\* what a handler passes to done as the response
Payloads == {"none", "object", "array", "string", "unserializable"}

IsObject(p) == p \in {"object", "array", "unserializable"}

\* JSON.stringify(response, dropCycles) or the raw text
SerializedBody(p) ==
  CASE p = "unserializable" ->
         [type |-> "json", content |-> "Internal Server Error", fields |-> {"message"}]
    [] p \in {"object", "array"} -> [type |-> "json", content |-> p, fields |-> {}]
    [] p = "string" -> [type |-> "text", content |-> p, fields |-> {}]
    [] OTHER -> EmptyBody

\* Buffer.byteLength(body), as the header value
ByteLength(b) ==
  CASE b.content = "object" -> "13"
    [] b.content = "array" -> "7"
    [] b.content = "string" -> "5"
    [] OTHER -> "35"

NoBodyStatus == {204, 304}

\* Context._setHeaders: a header is set only while the headers are unsent
\* and the response carries no value for it.
(* variant: Content-Length is computed whatever the status *)
SetHeadersAlwaysLength(r, statusCode, b, contentType) ==
  LET wanted == [n \in HeaderNames |->
                   CASE n = "Cache-Control" -> "no-cache, no-store, must-revalidate"
                     [] n = "Pragma" -> "no-cache"
                     [] n = "Expires" -> "0"
                     [] n = "Content-Type" -> contentType
                     [] OTHER -> IF b # EmptyBody THEN ByteLength(b) ELSE ""]
  IN  [r EXCEPT !.headers =
         [n \in HeaderNames |->
            IF ~r.headersSent /\ r.headers[n] = "" THEN wanted[n] ELSE r.headers[n]]]

SetHeaders(r, statusCode, b, contentType) ==
  LET wanted == [n \in HeaderNames |->
                   CASE n = "Cache-Control" -> "no-cache, no-store, must-revalidate"
                     [] n = "Pragma" -> "no-cache"
                     [] n = "Expires" -> "0"
                     [] n = "Content-Type" -> contentType
                     [] OTHER -> IF statusCode \notin NoBodyStatus /\ b # EmptyBody
                                 THEN ByteLength(b) ELSE ""]
  IN  [r EXCEPT !.headers =
         [n \in HeaderNames |->
            IF ~r.headersSent /\ r.headers[n] = "" THEN wanted[n] ELSE r.headers[n]]]

\* Context.done(err, response) past its first check, acting on the response r
DoneBody(r, e, p) ==
  LET statusCode == IF r.statusCode # 0 THEN r.statusCode ELSE 200 IN
  IF Truthy(e)
  THEN respond(e, [r EXCEPT !.statusCode = IF e.statusCode # 0 THEN e.statusCode ELSE 400],
               "doneErr")
  ELSE LET b == SerializedBody(p)
           r1 == IF p = "unserializable" THEN [r EXCEPT !.statusCode = 500] ELSE r
           r2 == SetHeaders(r1, statusCode, b,
                            IF IsObject(p) THEN "application/json"
                            ELSE "text/html; charset=utf-8")
       IN  IF statusCode \notin NoBodyStatus
           THEN ResEnd(r2, b, "done")
           ELSE ResEnd(r2, EmptyBody, "done")

(* variant: no check that the response is finished *)
ContextDoneNoGuard(r, e, p) == DoneBody(r, e, p)

ContextDone(r, e, p) ==
  IF r.finished THEN r ELSE DoneBody(r, e, p)

\* ------------------------------------------------------------------- state
VARIABLES
  resources,           \* Router.resources: the base path of each resource
  routeCache,          \* Router.routeCache: url -> cached match list
  lastResourceUpdate,  \* Router.lastResourceUpdate
  lastResult,          \* what the latest matchResources call returned, and for which url
  reqUrl,              \* req.url
  routed,              \* req._routed
  routeCalls,          \* route() calls made so far for the request
  pc,                  \* where the request is in handleRequest / route
  sessPending,         \* resources whose handleSession callback is outstanding
  cands,               \* matchingResources of the running route()
  k,                   \* position in cands of the candidate being tried
  handled,             \* route()'s `handled`
  h,                   \* per candidate: the closure of its promise and its handler
  res,                 \* the ServerResponse
  finishDue,           \* end() has run and 'finish' is not emitted yet
  resClosed,           \* 'close' was emitted
  tally,               \* what the router did for the request, counted
  ctx,                 \* a Context used on its own: the done calls made on it
  script,              \* a Script handle: its source and its compilation cache
  runs,                \* the runs of the handle, in the order they were started
  clock,               \* Date.now()
  sessions,            \* the Session objects made so far
  sessionIndex,        \* sessionIndex: id -> Session object (0: no entry)
  store,               \* the rows of the persistent session store, by id
  storeOps,            \* store calls issued and not completed
  resolves,            \* the createSession(sid) calls made, with their outcome
  writes,              \* the lastActive writes createSession issued to the store
  issued,              \* ids generated and store calls issued, counted
  userSessionIndex,    \* userSessionIndex: uid -> id -> Session object (0: no entry)
  socketIndex,         \* SessionStore.socketIndex: id -> the sockets bound to it
  sockets,             \* the socket handles: connected, rooms joined, calls applied
  bus,                 \* the pub/sub transport: notifications published, to deliver, and heard
  sweep                \* sessionCount, cleanupInactiveSessions.lastRun, sweeps scheduled

matchVars == <<resources, routeCache, lastResourceUpdate, lastResult>>
\* the variables no router action touches
scriptVars == <<script, runs>>
sessVars == <<clock, sessions, sessionIndex, store, storeOps, resolves, writes, issued>>
regVars == <<userSessionIndex, socketIndex, sockets, bus, sweep>>
restVars == <<ctx, scriptVars, sessVars, regVars>>
vars == <<resources, routeCache, lastResourceUpdate, lastResult,
          reqUrl, routed, routeCalls, pc, sessPending, cands, k, handled, h,
          res, finishDue, resClosed, tally, ctx, script, runs,
          clock, sessions, sessionIndex, store, storeOps, resolves, writes, issued,
          userSessionIndex, socketIndex, sockets, bus, sweep>>

CandIdx == 1..MaxCand

\* a candidate before its turn
HandlerIdle ==
  [phase |-> "idle",          \* idle, sync (inside the call), async (returned), over
   ops |-> 0,                 \* calls made
   settled |-> FALSE,         \* `settled` of the candidate's promise executor
   nextRequested |-> FALSE,   \* `nextRequested` of the loop iteration
   prom |-> "pending",        \* the awaited promise: pending, resolved, rejected
   promErr |-> NoErr,
   ret |-> "none",            \* the promise handle returned: none, pending, settled
   doneCont |-> FALSE,        \* ctx.done is past originalDone, its continuation is queued
   calledDone |-> FALSE,      \* the handler called ctx.done
   calledNext |-> FALSE,      \* the handler called next
   failed |-> FALSE,          \* the handler threw, rejected or called next(err)
   wrote |-> FALSE]           \* the handler touched the response itself

CtxIdle == [calls |-> 0, prep |-> 0, completed |-> FALSE, err |-> NoErr,
            payload |-> "none"]

TallyInit == [notFound |-> 0, caught |-> 0, sessionErr |-> 0, sessionCbs |-> 0]

InSync == \E j \in CandIdx : h[j].phase = "sync"

\* resolve() / reject(err) of the candidate's promise: the first one decides
Resolve(hj) == IF hj.prom = "pending" THEN [hj EXCEPT !.prom = "resolved"] ELSE hj
Reject(hj, e) ==
  IF hj.prom = "pending" THEN [hj EXCEPT !.prom = "rejected", !.promErr = e] ELSE hj

\* ------------------------------------------------- Router.matchResources
RouteCacheLimit == 1000

EmptyCache == [u \in {} |-> <<>>]

\* the cache after the cardinality check of matchResources
CacheChecked(rs, cache, last) == IF last # Len(rs) THEN EmptyCache ELSE cache

\* the list matchResources(u) returns
MatchResult(rs, cache, last, u) ==
  IF Len(rs) = 0 THEN <<>>
  ELSE LET c == CacheChecked(rs, cache, last)
       IN  IF u \in DOMAIN c THEN c[u] ELSE ComputeMatches(rs, u)

\* this.routeCache after matchResources(u)
CacheAfter(rs, cache, last, u) ==
  IF Len(rs) = 0 THEN cache
  ELSE LET c == CacheChecked(rs, cache, last)
       IN  IF u \in DOMAIN c THEN c
           ELSE IF Cardinality(DOMAIN c) < RouteCacheLimit
                THEN [x \in DOMAIN c \cup {u} |->
                        IF x = u THEN ComputeMatches(rs, u) ELSE c[x]]
                ELSE c

\* this.lastResourceUpdate after matchResources(u)
LastUpdateAfter(rs, last) == IF Len(rs) = 0 THEN last ELSE Len(rs)

\* a matchResources(u) call on the router, from any caller
MatchResources(u) ==
  /\ pc = "off"
  /\ lastResult' = [called |-> TRUE, url |-> u, changes |-> lastResult.changes,
                    result |-> MatchResult(resources, routeCache, lastResourceUpdate, u)]
  /\ routeCache' = CacheAfter(resources, routeCache, lastResourceUpdate, u)
  /\ lastResourceUpdate' = LastUpdateAfter(resources, lastResourceUpdate)
  /\ UNCHANGED <<restVars, resources, reqUrl, routed, routeCalls, pc, sessPending,
                 cands, k, handled, h, res, finishDue, resClosed, tally>>

\* ------------------------------------------------------------ the request
NoResult == [called |-> FALSE, url |-> <<>>, result |-> <<>>, changes |-> 0]

RECURSIVE SeqsUpTo(_, _)
SeqsUpTo(S, n) ==
  IF n = 0 THEN {<<>>}
  ELSE LET shorter == SeqsUpTo(S, n - 1)
       IN  shorter \cup {Append(q, x) : q \in shorter, x \in S}

RoutePaths == {PathA, PathAB}
RouteUrls == {UrlABC, UrlO}

Distinct(q) == \A i, j \in 1..Len(q) : i # j => q[i] # q[j]

\* no script is loaded
NoScript == [compiles |-> TRUE, body |-> <<>>, error |-> NoErr, cache |-> {}, compiled |-> 0]

ScriptOff == script = NoScript /\ runs = <<>>

\* bounds of the session store model
MaxCalls == 4      \* createSession and save calls made by the server and its handlers

NoId == 0

\* ids are the ones createUniqueIdentifier made, in the order it made them,
\* and one id this process never generated (a cookie from an earlier life
\* of the store, or from anywhere)
ForeignId == MaxCalls + 1

Ids == 1..ForeignId

StartTime == 100000

\* no session store is in use
SessOff ==
  /\ clock = StartTime
  /\ sessions = <<>>
  /\ sessionIndex = [i \in Ids |-> 0]
  /\ store = [i \in Ids |-> [present |-> FALSE, lastActive |-> 0]]
  /\ storeOps = {}
  /\ resolves = <<>>
  /\ writes = [i \in Ids |-> [last |-> 0, soon |-> FALSE]]
  /\ issued = [ids |-> 0, calls |-> 0]

\* user ids; 0 stands for no uid
NoUid == 0

Uids == {1, 2}

MaxSock == 1       \* socket handles

Sockets == 1..MaxSock

Rooms == {"r"}

SocketIdle == [open |-> FALSE, gone |-> FALSE, rooms |-> {}, applied |-> <<>>]

SweepIdle == [sessionCount |-> 0, lastRun |-> 0, scheduled |-> 0, requests |-> 0]

\* the indices and sockets of a registry nobody has used
RegOff ==
  /\ userSessionIndex = [u \in Uids |-> [i \in Ids |-> 0]]
  /\ socketIndex = [i \in Ids |-> {}]
  /\ sockets = [c \in Sockets |-> SocketIdle]
  /\ bus = [queue |-> {}, published |-> {}, heard |-> {}]
  /\ sweep = SweepIdle

RequestIdle ==
  /\ routed = FALSE
  /\ routeCalls = 0
  /\ sessPending = {}
  /\ cands = <<>>
  /\ k = 0
  /\ handled = FALSE
  /\ h = [j \in CandIdx |-> HandlerIdle]
  /\ res = ResInit
  /\ finishDue = FALSE
  /\ resClosed = FALSE
  /\ tally = TallyInit
  /\ ctx = CtxIdle

\* resources loaded parent before child, so that routing has to reorder them
ParentFirst(q) ==
  \A i, j \in 1..Len(q) : i < j => specificness(q[i]) <= specificness(q[j])

\* a server with its resources loaded and one request arriving
Init ==
  /\ resources \in {q \in SeqsUpTo(RoutePaths, MaxCand) : Distinct(q) /\ ParentFirst(q)}
  /\ routeCache = EmptyCache
  /\ lastResourceUpdate = 0
  /\ lastResult = NoResult
  /\ reqUrl \in RouteUrls
  /\ pc = "request"
  /\ RequestIdle
  /\ ScriptOff
  /\ SessOff
  /\ RegOff

\* a router with its resources, and no request: matchResources is called directly
InitMatch ==
  /\ resources \in SeqsUpTo(Paths, MaxRes)
  /\ routeCache = EmptyCache
  /\ lastResourceUpdate = 0
  /\ lastResult = NoResult
  /\ reqUrl = <<>>
  /\ pc = "off"
  /\ RequestIdle
  /\ ScriptOff
  /\ SessOff
  /\ RegOff

Ended(r0, r1) == ~r0.writableEnded /\ r1.writableEnded

\* Server.handleRequest: the createSession callback reports an error
SessionErrorLiteral ==
  [kind |-> "object", message |-> "Session error", statusCode |-> 500, status |-> 0]

CreateSessionFail(e) ==
  /\ pc = "request"
  /\ LET r1 == respond(IF e.kind = "Error" THEN e ELSE SessionErrorLiteral,
                       [res EXCEPT !.statusCode = 500], "session")
     IN  /\ res' = r1
         /\ finishDue' = (finishDue \/ Ended(res, r1))
  /\ tally' = [tally EXCEPT !.sessionErr = @ + 1]
  /\ pc' = "end"
  /\ UNCHANGED <<restVars, matchVars, reqUrl, routed, routeCalls, sessPending, cands, k, handled,
                 h, resClosed>>

\* Router.route, lines 46-48
(* variant: the mark is not looked at *)
AlreadyRoutedNever == FALSE

AlreadyRouted == routed

\* Router.route up to the call of handleSessions: the first call comes from
\* handleRequest once the session is there, later ones from the transport.
Route ==
  /\ routeCalls < MaxRouteCalls
  /\ pc = "request" \/ routeCalls >= 1
  /\ ~InSync
  /\ routeCalls' = routeCalls + 1
  /\ IF AlreadyRouted
     THEN UNCHANGED <<routed, pc, sessPending>>
     ELSE /\ routed' = TRUE
          /\ sessPending' = 1..Len(resources)
          /\ pc' = IF Len(resources) = 0 THEN "dispatch" ELSE "sessions"
  /\ UNCHANGED <<restVars, matchVars, reqUrl, cands, k, handled, h, res, finishDue, resClosed,
                 tally>>

\* the catch block of Router.route
WrappedError(e) ==
  IF e.kind = "Error" THEN e
  ELSE [kind |-> "object",
        message |-> IF e.kind = "string" THEN e.message ELSE "[object Object]",
        statusCode |-> 500, status |-> 0]

RouteCatch(r, e) ==
  LET wrapped == WrappedError(e)
  IN  respond(wrapped,
              [r EXCEPT !.statusCode =
                 IF wrapped.statusCode # 0 THEN wrapped.statusCode ELSE 500],
              "catch")

\* Router.handleSessions: the callback a resource's handleSession is given
\* (a resource without handleSession calls it at once); the first error
\* rejects and route() catches it, the last success lets route() go on.
SessionCb(i, e) ==
  /\ pc = "sessions"
  /\ i \in sessPending
  /\ sessPending' = sessPending \ {i}
  /\ IF Truthy(e)
     THEN LET r1 == RouteCatch(res, e)
          IN  /\ res' = r1
              /\ finishDue' = (finishDue \/ Ended(res, r1))
              /\ tally' = [tally EXCEPT !.sessionCbs = @ + 1, !.caught = @ + 1,
                                        !.sessionErr = @ + 1]
              /\ pc' = "end"
     ELSE /\ pc' = IF sessPending' = {} THEN "dispatch" ELSE "sessions"
          /\ tally' = [tally EXCEPT !.sessionCbs = @ + 1]
          /\ UNCHANGED <<res, finishDue>>
  /\ UNCHANGED <<restVars, matchVars, reqUrl, routed, routeCalls, cands, k, handled, h, resClosed>>

\* Router.handle404
(* variant: the status is left as it is *)
Handle404NoStatus(r) == respond(ErrNotFound, r, "404")

Handle404(r) == respond(ErrNotFound, [r EXCEPT !.statusCode = 404], "404")

\* Router.route after the loop (line 162)
AfterLoop(hd) ==
  /\ pc' = "end"
  /\ IF ~hd /\ ~res.writableEnded /\ ~res.headersSent
     THEN LET r1 == Handle404(res)
          IN  /\ res' = r1
              /\ finishDue' = (finishDue \/ Ended(res, r1))
              /\ tally' = [tally EXCEPT !.notFound = @ + 1]
     ELSE UNCHANGED <<res, finishDue, tally>>
  /\ UNCHANGED <<k, h>>

\* Router.route, one turn of the loop for candidate j of cs (lines 61-150):
\* leave the loop, or build the Context, listen for finish/close and call
\* the handler. An external method is called without next: what it can do is
\* what a handle that never calls next can do.
Advance(j, cs, hd) ==
  IF j <= Len(cs) /\ ~(hd \/ res.writableEnded)
  THEN /\ h' = [h EXCEPT ![j] = [HandlerIdle EXCEPT !.phase = "sync"]]
       /\ k' = j
       /\ pc' = "await"
       /\ UNCHANGED <<res, finishDue, tally>>
  ELSE AfterLoop(hd)

\* Router.route after handleSessions resolved (lines 57-61)
Dispatch ==
  /\ pc = "dispatch"
  /\ LET cs == MatchResult(resources, routeCache, lastResourceUpdate, reqUrl)
     IN  /\ cands' = cs
         /\ Advance(1, cs, FALSE)
  /\ handled' = FALSE
  /\ routeCache' = CacheAfter(resources, routeCache, lastResourceUpdate, reqUrl)
  /\ lastResourceUpdate' = LastUpdateAfter(resources, lastResourceUpdate)
  /\ lastResult' = [called |-> TRUE, url |-> reqUrl, changes |-> lastResult.changes,
                    result |-> MatchResult(resources, routeCache, lastResourceUpdate,
                                           reqUrl)]
  /\ UNCHANGED <<restVars, resources, reqUrl, routed, routeCalls, sessPending,
                 resClosed>>

\* Router.route when the awaited promise of candidate k settles (lines 153-173)
RouteResume ==
  /\ pc = "await"
  /\ ~InSync
  /\ h[k].prom # "pending"
  /\ ~h[k].doneCont
  /\ IF h[k].prom = "rejected"
     THEN LET r1 == RouteCatch(res, h[k].promErr)
          IN  /\ res' = r1
              /\ finishDue' = (finishDue \/ Ended(res, r1))
              /\ tally' = [tally EXCEPT !.caught = @ + 1]
              /\ pc' = "end"
              /\ UNCHANGED <<k, h>>
     ELSE IF h[k].nextRequested
          THEN Advance(k + 1, cands, handled)
          ELSE IF handled \/ res.writableEnded \/ res.headersSent
               THEN AfterLoop(handled)
               ELSE Advance(k + 1, cands, handled)
  /\ UNCHANGED <<restVars, matchVars, reqUrl, routed, routeCalls, sessPending, cands, handled,
                 resClosed>>

\* ------------------------------------------------------------ the handlers
\* A handler may act while it is inside its call or after it returned; while
\* one is inside its call nothing else runs, and the continuation a ctx.done
\* call queued runs before any later callback of another handler.
MayAct(j) ==
  /\ h[j].phase \in {"sync", "async"}
  /\ h[j].ops < MaxOps
  /\ InSync => h[j].phase = "sync"
  /\ \A i \in CandIdx : i # j => ~h[i].doneCont

\* ctx.done(err, response) as the router wraps it (lines 94-108)
(* variant: the wrapper does not look at `settled` *)
HDoneUnsettled(j, e, p) ==
  /\ MayAct(j)
  /\ LET r1 == ContextDone(res, e, p)
     IN  /\ res' = r1
         /\ finishDue' = (finishDue \/ Ended(res, r1))
         /\ h' = [h EXCEPT ![j].ops = @ + 1, ![j].calledDone = TRUE,
                           ![j].doneCont = TRUE]
  /\ UNCHANGED <<restVars, matchVars, reqUrl, routed, routeCalls, pc, sessPending, cands, k,
                 handled, resClosed, tally>>

HDone(j, e, p) ==
  /\ MayAct(j)
  /\ IF h[j].settled
     THEN /\ h' = [h EXCEPT ![j].ops = @ + 1, ![j].calledDone = TRUE]
          /\ UNCHANGED <<res, finishDue>>
     ELSE LET r1 == ContextDone(res, e, p)
          IN  /\ res' = r1
              /\ finishDue' = (finishDue \/ Ended(res, r1))
              /\ h' = [h EXCEPT ![j].ops = @ + 1, ![j].calledDone = TRUE,
                                ![j].doneCont = TRUE]
  /\ UNCHANGED <<restVars, matchVars, reqUrl, routed, routeCalls, pc, sessPending, cands, k,
                 handled, resClosed, tally>>

\* the rest of the wrapper, after `await originalDone(...)` (lines 99-102)
DoneContinue(j) ==
  /\ h[j].doneCont
  /\ ~InSync
  /\ handled' = TRUE
  /\ h' = [h EXCEPT ![j] = Resolve([@ EXCEPT !.settled = TRUE, !.doneCont = FALSE])]
  /\ UNCHANGED <<restVars, matchVars, reqUrl, routed, routeCalls, pc, sessPending, cands, k,
                 res, finishDue, resClosed, tally>>

\* next(err) (lines 110-120)
HNext(j, e) ==
  /\ MayAct(j)
  /\ LET h1 == [h[j] EXCEPT !.ops = @ + 1, !.calledNext = TRUE]
     IN  IF h[j].settled
         THEN h' = [h EXCEPT ![j] = h1]
         ELSE LET h2 == [h1 EXCEPT !.nextRequested = TRUE, !.settled = TRUE,
                                   !.failed = @ \/ Truthy(e)]
              IN  h' = [h EXCEPT ![j] = IF Truthy(e) THEN Reject(h2, e) ELSE Resolve(h2)]
  /\ UNCHANGED <<restVars, matchVars, reqUrl, routed, routeCalls, pc, sessPending, cands, k,
                 handled, res, finishDue, resClosed, tally>>

RawBody == [type |-> "text", content |-> "raw", fields |-> {}]

\* ctx.end(data): the handler ends the response itself
HEnd(j) ==
  /\ MayAct(j)
  /\ LET r1 == ResEnd(res, RawBody, "direct")
     IN  /\ res' = r1
         /\ finishDue' = (finishDue \/ Ended(res, r1))
  /\ h' = [h EXCEPT ![j].ops = @ + 1, ![j].wrote = TRUE]
  /\ UNCHANGED <<restVars, matchVars, reqUrl, routed, routeCalls, pc, sessPending, cands, k,
                 handled, resClosed, tally>>

\* ctx.res.write(...): the handler starts streaming, the headers go out
HFlush(j) ==
  /\ MayAct(j)
  /\ res' = ResFlush(res)
  /\ h' = [h EXCEPT ![j].ops = @ + 1, ![j].wrote = TRUE]
  /\ UNCHANGED <<restVars, matchVars, reqUrl, routed, routeCalls, pc, sessPending, cands, k,
                 handled, finishDue, resClosed, tally>>

\* invokeHandler: fn() returned something that is not a promise (lines 124-125)
HReturn(j) ==
  /\ h[j].phase = "sync"
  /\ h' = [h EXCEPT ![j].phase = "async"]
  /\ UNCHANGED <<restVars, matchVars, reqUrl, routed, routeCalls, pc, sessPending, cands, k,
                 handled, res, finishDue, resClosed, tally>>

\* invokeHandler: fn() returned a promise, then/catch are attached (lines 125-137)
HReturnPromise(j) ==
  /\ h[j].phase = "sync"
  /\ h' = [h EXCEPT ![j].phase = "async", ![j].ret = "pending"]
  /\ UNCHANGED <<restVars, matchVars, reqUrl, routed, routeCalls, pc, sessPending, cands, k,
                 handled, res, finishDue, resClosed, tally>>

\* invokeHandler: fn() threw (lines 138-143)
HThrow(j, e) ==
  /\ h[j].phase = "sync"
  /\ h' = [h EXCEPT ![j] =
             IF @.settled THEN [@ EXCEPT !.phase = "async"]
             ELSE Reject([@ EXCEPT !.phase = "async", !.settled = TRUE, !.failed = TRUE], e)]
  /\ UNCHANGED <<restVars, matchVars, reqUrl, routed, routeCalls, pc, sessPending, cands, k,
                 handled, res, finishDue, resClosed, tally>>

\* the promise fn() returned resolves: the then callback (lines 126-131)
HRetResolve(j) ==
  /\ h[j].phase = "async" /\ h[j].ret = "pending"
  /\ ~InSync
  /\ ~h[j].doneCont
  /\ h' = [h EXCEPT ![j] =
             IF @.settled THEN [@ EXCEPT !.ret = "settled"]
             ELSE Resolve([@ EXCEPT !.ret = "settled", !.settled = TRUE])]
  /\ UNCHANGED <<restVars, matchVars, reqUrl, routed, routeCalls, pc, sessPending, cands, k,
                 handled, res, finishDue, resClosed, tally>>

\* the promise fn() returned rejects: the catch callback (lines 131-136)
HRetReject(j, e) ==
  /\ h[j].phase = "async" /\ h[j].ret = "pending"
  /\ ~InSync
  /\ ~h[j].doneCont
  /\ h' = [h EXCEPT ![j] =
             IF @.settled THEN [@ EXCEPT !.ret = "settled"]
             ELSE Reject([@ EXCEPT !.ret = "settled", !.settled = TRUE,
                                   !.failed = TRUE], e)]
  /\ UNCHANGED <<restVars, matchVars, reqUrl, routed, routeCalls, pc, sessPending, cands, k,
                 handled, res, finishDue, resClosed, tally>>

\* onResponseDone (lines 83-89), for the candidate whose listeners are attached
OnResponseDone ==
  IF pc = "await" /\ ~h[k].settled
  THEN /\ handled' = TRUE
       /\ h' = [h EXCEPT ![k] = Resolve([@ EXCEPT !.settled = TRUE])]
  ELSE UNCHANGED <<handled, h>>

\* the response emits 'finish' some time after end()
FinishEvent ==
  /\ finishDue
  /\ ~InSync
  /\ finishDue' = FALSE
  /\ OnResponseDone
  /\ UNCHANGED <<restVars, matchVars, reqUrl, routed, routeCalls, pc, sessPending, cands, k,
                 res, resClosed, tally>>

\* the client goes away while a candidate is being waited for: 'close'
CloseEvent ==
  /\ ~resClosed
  /\ pc = "await"
  /\ ~InSync
  /\ resClosed' = TRUE
  /\ OnResponseDone
  /\ UNCHANGED <<restVars, matchVars, reqUrl, routed, routeCalls, pc, sessPending, cands, k,
                 res, finishDue, tally>>

\* the errors a handler or a session step of the routed request raises
RouteErrors == {ErrBoom, ErrHttp, ErrObj}

\* what the handlers of the routed request pass to ctx.done
RouteDoneArgs == {<<NoErr, "object">>, <<ErrObj, "none">>}

HandlerStep(j) ==
  \/ \E a \in RouteDoneArgs : HDone(j, a[1], a[2])
  \/ DoneContinue(j)
  \/ \E e \in RouteErrors \cup {NoErr} : HNext(j, e)
  \/ HEnd(j)
  \/ HFlush(j)
  \/ HReturn(j)
  \/ HReturnPromise(j)
  \/ \E e \in RouteErrors : HThrow(j, e)
  \/ HRetResolve(j)
  \/ \E e \in RouteErrors : HRetReject(j, e)

Next ==
  \/ \E e \in RouteErrors : CreateSessionFail(e)
  \/ Route
  \/ \E i \in 1..MaxCand, e \in RouteErrors \cup {NoErr} : SessionCb(i, e)
  \/ Dispatch
  \/ RouteResume
  \/ \E j \in CandIdx : HandlerStep(j)
  \/ FinishEvent
  \/ CloseEvent

Spec == Init /\ [][Next]_vars

\* the event loop runs what is queued: the continuation of route() after an
\* await, the continuation of the ctx.done wrapper, the 'finish' event of an
\* ended response; and a handler that was called comes back from its call.
\* Nothing makes a handler call ctx.done, next or end.
HandlerCallEnds ==
  \E j \in CandIdx :
    HReturn(j) \/ HReturnPromise(j) \/ \E e \in RouteErrors : HThrow(j, e)

SpecRouteFair ==
  /\ Init
  /\ [][Next]_vars
  /\ WF_vars(HandlerCallEnds)
  /\ WF_vars(Dispatch)
  /\ WF_vars(RouteResume)
  /\ WF_vars(\E j \in CandIdx : DoneContinue(j))
  /\ WF_vars(FinishEvent)

NextMatch == \E u \in Urls : MatchResources(u)

SpecMatch == InitMatch /\ [][NextMatch]_vars

\* ------------------------------------- the route cache and resource changes
MaxChanges == 2   \* changes made to the resources array of a router

\* the lists one change of the array gives: an element pushed, the last one
\* popped, or one element replaced (the router keeps the caller's array)
ChangedLists(rs) ==
  {Append(rs, p) : p \in IF Len(rs) < MaxCand THEN RoutePaths ELSE {}}
    \cup (IF Len(rs) > 0 THEN {SubSeq(rs, 1, Len(rs) - 1)} ELSE {})
    \cup {q \in {[rs EXCEPT ![i] = p] : i \in 1..Len(rs), p \in RoutePaths} : q # rs}

\* the owner of the router changes its resources
ChangeResources(rs) ==
  /\ pc = "off"
  /\ lastResult.changes < MaxChanges
  /\ rs \in ChangedLists(resources)
  /\ resources' = rs
  /\ lastResult' = [lastResult EXCEPT !.changes = @ + 1]
  /\ UNCHANGED <<restVars, routeCache, lastResourceUpdate, reqUrl, routed, routeCalls, pc,
                 sessPending, cands, k, handled, h, res, finishDue, resClosed, tally>>

\* a router made with a list of resources, no call made yet
InitRouteCache ==
  /\ resources \in SeqsUpTo(RoutePaths, MaxCand)
  /\ routeCache = EmptyCache
  /\ lastResourceUpdate = 0
  /\ lastResult = NoResult
  /\ reqUrl = <<>>
  /\ pc = "off"
  /\ RequestIdle
  /\ ScriptOff
  /\ SessOff
  /\ RegOff

NextRouteCache ==
  \/ \E u \in RouteUrls : MatchResources(u)
  \/ \E rs \in SeqsUpTo(RoutePaths, MaxCand) : ChangeResources(rs)

SpecRouteCache == InitRouteCache /\ [][NextRouteCache]_vars

\* ------------------------------------------------ a Context on its own
MaxDone == 2   \* done calls made on the Context
MaxPrep == 2   \* other calls its handler makes on the response

StatusSet == {201, 204, 304}

\* a Context built for a request whose response nobody has touched
InitContext ==
  /\ resources = <<PathA>>
  /\ routeCache = EmptyCache
  /\ lastResourceUpdate = 0
  /\ lastResult = NoResult
  /\ reqUrl = UrlA
  /\ pc = "context"
  /\ RequestIdle
  /\ ScriptOff
  /\ SessOff
  /\ RegOff

requestVarsButRes ==
  <<reqUrl, routed, routeCalls, pc, sessPending, cands, k, handled, h, finishDue,
    resClosed, tally>>

\* the handler sets ctx.res.statusCode
CtxSetStatus(s) ==
  /\ pc = "context"
  /\ ctx.prep < MaxPrep
  /\ res' = [res EXCEPT !.statusCode = s]
  /\ ctx' = [ctx EXCEPT !.prep = @ + 1]
  /\ UNCHANGED <<matchVars, requestVarsButRes, scriptVars, sessVars, regVars>>

\* the handler writes to ctx.res: the headers go out
CtxFlush ==
  /\ pc = "context"
  /\ ctx.prep < MaxPrep
  /\ res' = ResFlush(res)
  /\ ctx' = [ctx EXCEPT !.prep = @ + 1]
  /\ UNCHANGED <<matchVars, requestVarsButRes, scriptVars, sessVars, regVars>>

\* the headers a handler sets itself on ctx.res, and the value it gives them
HandlerHeaders == {"Content-Type", "Cache-Control"}

HandlerValue == "handler"

\* the handler calls ctx.res.setHeader(name, value); setHeader throws once
\* the headers are sent
CtxSetHeader(n) ==
  /\ pc = "context"
  /\ ctx.prep < MaxPrep
  /\ ~res.headersSent
  /\ res' = ResSetHeader(res, n, HandlerValue)
  /\ ctx' = [ctx EXCEPT !.prep = @ + 1]
  /\ UNCHANGED <<matchVars, requestVarsButRes, scriptVars, sessVars, regVars>>

\* Context.end
CtxEnd ==
  /\ pc = "context"
  /\ ctx.prep < MaxPrep
  /\ res' = ResEnd(res, RawBody, "direct")
  /\ ctx' = [ctx EXCEPT !.prep = @ + 1]
  /\ UNCHANGED <<matchVars, requestVarsButRes, scriptVars, sessVars, regVars>>

\* Context.done(err, response), called on the Context itself
CtxDone(e, p) ==
  /\ pc = "context"
  /\ ctx.calls < MaxDone
  /\ res' = ContextDone(res, e, p)
  /\ ctx' = [ctx EXCEPT !.calls = @ + 1, !.err = e, !.payload = p,
                        !.completed = @ \/ Ended(res, res')]
  /\ UNCHANGED <<matchVars, requestVarsButRes, scriptVars, sessVars, regVars>>

NextContext ==
  \/ \E s \in StatusSet : CtxSetStatus(s)
  \/ CtxFlush
  \/ \E n \in HandlerHeaders : CtxSetHeader(n)
  \/ CtxEnd
  \/ \E e \in Errors : CtxDone(e, "none")
  \/ \E p \in Payloads : CtxDone(NoErr, p)

SpecContext == InitContext /\ [][NextContext]_vars

\* ------------------------------------------------------ the script handle
MaxStmts == 2   \* statements of a hook body
MaxRuns == 2    \* runs made of one handle

\* the statements a hook body is made of
Stmts == {"stmt", "throw", "call", "cancel", "cancelIfTrue", "cancelIfFalse",
          "cancelUnlessTrue", "cancelUnlessFalse"}

\* cancel(CancelMsg, CancelStatus), cancelIf(c, CancelMsg, CancelStatus), ...
CancelMsg == "nope"

CancelStatus == 403

ErrSyntax == [kind |-> "Error", message |-> "Unexpected token", statusCode |-> 0, status |-> 0]

ErrNotAFunction ==
  [kind |-> "Error", message |-> "this.done is not a function", statusCode |-> 0, status |-> 0]

ErrNotDefined ==
  [kind |-> "Error", message |-> "dpd is not defined", statusCode |-> 0, status |-> 0]

ErrFnNotDefined ==
  [kind |-> "Error", message |-> "fn is not defined", statusCode |-> 0, status |-> 0]

\* the names run() puts in scriptContext, as Object.keys lists them
SandboxNames ==
  <<"cancel", "cancelIf", "cancelUnless", "me", "isMe", "console", "require", "query",
    "internal", "isRoot", "emit", "session", "ctx", "_this", "_error">>

\* runWithContext: Object.keys(context).filter(key => key !== 'this')
FunctionArgs(names) == SelectSeq(names, LAMBDA n : n # "this")

\* the members of class Script that a helper bound to the handle can call
ScriptMethods ==
  {"_createFunction", "runWithContext", "run", "_setupDomainHandlers", "_cancel",
   "_cancelIf", "_cancelUnless", "_isMe", "_emit", "_wrapError", "_isPromise",
   "_wrapPromise", "_wrapAsyncFunction", "_wrapAsyncFunctions"}

\* Script._cancel(msg, status), msg a string: the value it throws. It builds
\* {message: msg, statusCode: status} and calls this.done(err) before the throw.
Cancel(msg, status) ==
  LET err == [kind |-> "object", message |-> msg, statusCode |-> status, status |-> 0]
  IN  IF "done" \in ScriptMethods THEN err ELSE ErrNotAFunction

\* what one statement throws in a sandbox without domain functions (NoErr:
\* it returns normally)
StmtThrows(st) ==
  CASE st = "throw" -> ErrBoom
    [] st = "call" -> ErrNotDefined
    [] st \in {"cancel", "cancelIfTrue", "cancelUnlessFalse"} -> Cancel(CancelMsg, CancelStatus)
    [] OTHER -> NoErr

\* func.apply(context._this, args): the body runs up to its first throw
RECURSIVE ExecBody(_, _)
ExecBody(body, ran) ==
  IF ran = Len(body) THEN [ran |-> ran, err |-> NoErr]
  ELSE LET e == StmtThrows(body[ran + 1])
       IN  IF Truthy(e) THEN [ran |-> ran + 1, err |-> e]
           ELSE ExecBody(body, ran + 1)

\* this.getFunction(functionArgs): _.memoize keeps its results in a Map keyed
\* by the first argument itself, here the array runWithContext has just built
MemoHit(cache, key) == \E c \in cache : c.key = key

RunIdle ==
  [domain |-> FALSE,
   phase |-> "tick",               \* tick (process.nextTick pending), over
   ran |-> 0,                      \* hook statements executed
   error |-> NoErr,                \* scriptContext._error
   firstErr |-> NoErr,             \* the first error raised in the run
   waitingForCallback |-> FALSE,   \* run()'s local of that name
   callbackCount |-> 0,            \* run()'s local of that name
   isDone |-> FALSE,
   onDone |-> 0,                   \* calls of fn made
   onDoneErr |-> NoErr,
   rejected |-> NoErr]             \* what the promise of run() rejected with

\* doneCallback(err)
DoneCallback(r, err) ==
  IF r.isDone THEN r
  ELSE [r EXCEPT !.isDone = TRUE, !.onDone = @ + 1, !.onDoneErr = err]

\* a handle loaded with a source text
InitScript ==
  /\ resources = <<>>
  /\ routeCache = EmptyCache
  /\ lastResourceUpdate = 0
  /\ lastResult = NoResult
  /\ reqUrl = <<>>
  /\ pc = "script"
  /\ RequestIdle
  /\ script \in [compiles : BOOLEAN, body : SeqsUpTo(Stmts, MaxStmts), error : {NoErr},
                 cache : {{}}, compiled : {0}]
  /\ runs = <<>>
  /\ SessOff
  /\ RegOff

requestVars ==
  <<reqUrl, routed, routeCalls, pc, sessPending, cands, k, handled, h, res, finishDue,
    resClosed, tally>>

\* script.run(ctx, domain, fn) up to its return: the hook body has run
ScriptRun(domain) ==
  /\ pc = "script"
  /\ Len(runs) < MaxRuns
  /\ LET id == Len(runs) + 1
         r0 == [RunIdle EXCEPT !.domain = domain]
     IN  IF Truthy(script.error)
         THEN /\ runs' = Append(runs, [DoneCallback(r0, script.error) EXCEPT !.phase = "over"])
              /\ UNCHANGED script
         ELSE IF domain
         THEN \* _setupDomainHandlers reads `fn`, which is no binding of its scope
              /\ runs' = Append(runs, [r0 EXCEPT !.phase = "over",
                                                 !.firstErr = ErrFnNotDefined,
                                                 !.rejected = ErrFnNotDefined])
              /\ UNCHANGED script
         ELSE LET key == id
                  args == FunctionArgs(SandboxNames)
                  hit == MemoHit(script.cache, key)
                  made == ~hit /\ script.compiles
                  out == IF hit \/ script.compiles
                         THEN ExecBody(script.body, 0)
                         ELSE [ran |-> 0, err |-> ErrSyntax]
              IN  /\ script' = IF made
                               THEN [script EXCEPT
                                       !.cache = @ \cup {[key |-> key, args |-> args]},
                                       !.compiled = @ + 1]
                               ELSE script
                  /\ runs' = Append(runs, [r0 EXCEPT !.ran = out.ran,
                                                     !.error = out.err,
                                                     !.firstErr = out.err])
  /\ UNCHANGED <<matchVars, requestVars, ctx, sessVars, regVars>>

\* the process.nextTick callback of run()
ScriptTick(i) ==
  /\ pc = "script"
  /\ i \in 1..Len(runs)
  /\ runs[i].phase = "tick"
  /\ runs' = [runs EXCEPT ![i] =
                [(IF ~runs[i].waitingForCallback /\ runs[i].callbackCount <= 0
                  THEN DoneCallback(runs[i], runs[i].error)
                  ELSE runs[i]) EXCEPT !.phase = "over"]]
  /\ UNCHANGED <<matchVars, requestVars, ctx, sessVars, regVars, script>>

NextScript ==
  \/ \E d \in BOOLEAN : ScriptRun(d)
  \/ \E i \in 1..MaxRuns : ScriptTick(i)

SpecScript == InitScript /\ [][NextScript]_vars

\* ------------------------------------------------------ the session store
MaxClock == 120001   \* how far the clock runs: 20001 ms from StartTime

\* options.maxAge as the server is configured here
MaxAge == 15000

\* 10 * 1000: lastActive is refreshed once it is older than this
TouchInterval == 10000

\* the steps the clock takes between two events
ClockSteps == {TouchInterval, TouchInterval + 1}

\* { anonymous: true }
AnonymousData == [anonymous |-> TRUE, id |-> NoId, lastActive |-> 0]

\* what Store.find hands to its callback: the array of the documents found,
\* which has no id, no lastActive and no anonymous property of its own
FindResult == [anonymous |-> FALSE, id |-> NoId, lastActive |-> 0]

\* new Session(data, ...)
Session(data, now) ==
  [anonymous |-> data.anonymous,
   id |-> data.id,
   lastActive |-> IF data.lastActive = 0 THEN now ELSE data.lastActive,
   sid |-> data.id,
   bornAnonymous |-> data.anonymous,   \* made by createSession() without a usable id
   saved |-> FALSE,                    \* save() was called on it
   got |-> {},                         \* the ids its data has carried
   ops |-> FALSE]                      \* a store call was made for it

\* `!s || s.lastActive < Date.now() - store.options.maxAge`, s what find gave
MissingOrStale(s, now) == s.lastActive # 0 /\ s.lastActive < now - MaxAge

\* `!data.anonymous && (!data.lastActive || data.lastActive < Date.now() - 10 * 1000)`
NeedsTouch(d, now) ==
  ~d.anonymous /\ (d.lastActive = 0 \/ d.lastActive < now - TouchInterval)

\* a number that tells a store call from the others in flight
FreeOp == CHOOSE n \in 1..(Cardinality(storeOps) + 1) : \A c \in storeOps : c.n # n

\* Session.prototype.save up to its store call, on the data d of object o:
\* "invalid" (fn('Invalid session ID')), or the store call it makes
SaveCall(o, d, r, path) ==
  IF d.anonymous
  THEN [kind |-> "insert", id |-> issued.ids + 1, obj |-> o, lastActive |-> d.lastActive,
        res |-> r, path |-> path, n |-> FreeOp]
  ELSE IF d.id = NoId
  THEN [kind |-> "invalid", id |-> NoId, obj |-> o, lastActive |-> d.lastActive,
        res |-> r, path |-> path, n |-> 0]
  ELSE [kind |-> "update", id |-> d.id, obj |-> o, lastActive |-> d.lastActive,
        res |-> r, path |-> path, n |-> FreeOp]

IssuedAfter(c) ==
  [issued EXCEPT !.ids = IF c.kind = "insert" THEN @ + 1 ELSE @]

\* the log of the lastActive writes createSession issues, per id: the time
\* of the last one, and whether one came within 10 s of the one before it
WritesAfter(c) ==
  IF c.kind # "update" THEN writes
  ELSE [writes EXCEPT ![c.id] =
          [last |-> clock,
           soon |-> @.soon \/ (@.last # 0 /\ clock - @.last <= TouchInterval)]]

ResolveIdle ==
  [sid |-> NoId,
   phase |-> "pending",     \* pending, returned (fn(null, session)), error (fn(err, ...))
   obj |-> 0,               \* the Session handed to fn
   hadRow |-> FALSE,        \* the store held a row under sid when the call was made
   indexed |-> 0,           \* sessionIndex[sid] when the call was made
   due |-> FALSE,           \* it found lastActive more than 10 s old, within maxAge
   wrote |-> FALSE]         \* it issued a write of lastActive

\* a session store with nothing in memory; the store may hold a row of an
\* earlier life under the foreign id
InitSession ==
  /\ resources = <<>>
  /\ routeCache = EmptyCache
  /\ lastResourceUpdate = 0
  /\ lastResult = NoResult
  /\ reqUrl = <<>>
  /\ pc = "session"
  /\ RequestIdle
  /\ ScriptOff
  /\ clock = StartTime
  /\ sessions = <<>>
  /\ sessionIndex = [i \in Ids |-> 0]
  /\ \E had \in BOOLEAN :
       store = [i \in Ids |-> IF i = ForeignId /\ had
                              THEN [present |-> TRUE, lastActive |-> StartTime - 1]
                              ELSE [present |-> FALSE, lastActive |-> 0]]
  /\ storeOps = {}
  /\ resolves = <<>>
  /\ writes = [i \in Ids |-> [last |-> 0, soon |-> FALSE]]
  /\ issued = [ids |-> 0, calls |-> 0]
  /\ RegOff

notSessVars == <<matchVars, requestVars, ctx, scriptVars, regVars>>

\* time passes
Tick(d) ==
  /\ pc = "session"
  /\ clock + d <= MaxClock
  /\ clock' = clock + d
  /\ UNCHANGED <<notSessVars, sessions, sessionIndex, store, storeOps, resolves, writes,
                 issued>>

\* createSession(fn), or createSession with an empty sid: a new anonymous
\* Session and no store call (cleanupInactiveSessions.lastRun is undefined,
\* so the sweep of lines 284-289 is not started)
CreateAnonymous ==
  /\ pc = "session"
  /\ issued.calls < MaxCalls
  /\ sessions' = Append(sessions, Session(AnonymousData, clock))
  /\ issued' = [issued EXCEPT !.calls = @ + 1]
  /\ UNCHANGED <<notSessVars, clock, sessionIndex, store, storeOps, resolves, writes>>

\* the ids a client can present: the foreign one, and those a session of
\* this process carries
Presentable(sid) ==
  sid = ForeignId \/ \E o \in 1..Len(sessions) : sessions[o].id = sid

\* what the callback of a save made by createSession does with the call r
\* once the save is over: the fast path reports the session whatever the
\* save said, the store path passes the error of the save on
Resolved(r, o, err, path) ==
  [resolves[r] EXCEPT !.phase = IF err /\ path = "store" THEN "error" ELSE "returned",
                      !.obj = o]

\* createSession(sid, fn) with a sid, up to its return
CreateSession(sid) ==
  /\ pc = "session"
  /\ issued.calls < MaxCalls
  /\ Presentable(sid)
  /\ LET r == Len(resolves) + 1
         c == sessionIndex[sid]
         r0 == [ResolveIdle EXCEPT !.sid = sid, !.hadRow = store[sid].present,
                                   !.indexed = c]
     IN  IF c # 0 /\ sessions[c].lastActive # 0 /\ sessions[c].lastActive >= clock - MaxAge
         THEN \* fast path
              IF NeedsTouch(sessions[c], clock)
              THEN LET d == [sessions[c] EXCEPT !.lastActive = clock]
                       call == SaveCall(c, d, r, "fast")
                       r1 == [r0 EXCEPT !.due = TRUE, !.wrote = call.kind = "update"]
                   IN  /\ sessions' = [sessions EXCEPT ![c] =
                                         [d EXCEPT !.saved = TRUE,
                                                   !.ops = @ \/ call.kind # "invalid"]]
                       /\ issued' = [IssuedAfter(call) EXCEPT !.calls = @ + 1]
                       /\ IF call.kind = "invalid"
                          THEN /\ resolves' = Append(resolves,
                                                [r1 EXCEPT !.phase = "returned", !.obj = c])
                               /\ UNCHANGED <<storeOps, writes>>
                          ELSE /\ resolves' = Append(resolves, r1)
                               /\ storeOps' = storeOps \cup {call}
                               /\ writes' = WritesAfter(call)
              ELSE /\ resolves' = Append(resolves,
                                    [r0 EXCEPT !.phase = "returned", !.obj = c])
                   /\ issued' = [issued EXCEPT !.calls = @ + 1]
                   /\ UNCHANGED <<sessions, storeOps, writes>>
         ELSE \* this.find({ id: sid }, ...)
              /\ resolves' = Append(resolves, r0)
              /\ storeOps' = storeOps \cup
                   {[kind |-> "find", id |-> sid, obj |-> 0, lastActive |-> 0, res |-> r,
                     path |-> "store", n |-> FreeOp]}
              /\ issued' = [issued EXCEPT !.calls = @ + 1]
              /\ UNCHANGED <<sessions, writes>>
  /\ UNCHANGED <<notSessVars, clock, sessionIndex, store>>

\* the callback createSession gave to find (lines 252-279)
FindDone(call, ok) ==
  /\ pc = "session"
  /\ call \in storeOps
  /\ call.kind = "find"
  /\ LET r == call.res
         rest == storeOps \ {call}
     IN  IF ~ok
         THEN /\ resolves' = [resolves EXCEPT ![r] = [@ EXCEPT !.phase = "error"]]
              /\ storeOps' = rest
              /\ UNCHANGED <<sessions, sessionIndex, writes, issued>>
         ELSE LET gone == MissingOrStale(FindResult, clock)
                  s == IF gone THEN AnonymousData ELSE FindResult
                  sid == IF gone THEN NoId ELSE call.id
                  c == IF sid = NoId THEN 0 ELSE sessionIndex[sid]
                  o == IF c # 0 THEN c ELSE Len(sessions) + 1
                  all == IF c # 0 THEN sessions ELSE Append(sessions, Session(s, clock))
                  touch == NeedsTouch(all[o], clock)
                  d == [all[o] EXCEPT !.lastActive = clock]
                  save == SaveCall(o, d, r, "store")
              IN  /\ sessionIndex' = IF sid # NoId /\ c = 0
                                     THEN [sessionIndex EXCEPT ![sid] = o]
                                     ELSE sessionIndex
                  /\ IF ~touch
                     THEN /\ sessions' = all
                          /\ resolves' = [resolves EXCEPT ![r] =
                                            [@ EXCEPT !.phase = "returned", !.obj = o]]
                          /\ storeOps' = rest
                          /\ UNCHANGED <<writes, issued>>
                     ELSE /\ sessions' = [all EXCEPT ![o] =
                                            [d EXCEPT !.saved = TRUE,
                                                      !.ops = @ \/ save.kind # "invalid"]]
                          /\ issued' = IssuedAfter(save)
                          /\ LET r1 == [resolves[r] EXCEPT
                                          !.due = all[o].lastActive # 0,
                                          !.wrote = save.kind = "update"]
                             IN  IF save.kind = "invalid"
                                 THEN /\ resolves' = [resolves EXCEPT ![r] =
                                                        [r1 EXCEPT !.phase = "error", !.obj = o]]
                                      /\ storeOps' = rest
                                      /\ UNCHANGED writes
                                 ELSE /\ resolves' = [resolves EXCEPT ![r] = r1]
                                      /\ storeOps' = rest \cup {save}
                                      /\ writes' = WritesAfter(save)
  /\ UNCHANGED <<notSessVars, clock, store>>

\* session.save() called by the application, as saveRooms does
AppSave(o) ==
  /\ pc = "session"
  /\ o \in 1..Len(sessions)
  /\ issued.calls < MaxCalls
  /\ LET call == SaveCall(o, sessions[o], 0, "app")
     IN  /\ sessions' = [sessions EXCEPT ![o] =
                           [@ EXCEPT !.saved = TRUE, !.ops = @ \/ call.kind # "invalid"]]
         /\ issued' = [IssuedAfter(call) EXCEPT !.calls = @ + 1]
         /\ storeOps' = IF call.kind = "invalid" THEN storeOps ELSE storeOps \cup {call}
  /\ UNCHANGED <<notSessVars, clock, sessionIndex, store, resolves, writes>>

\* the callback save gave to store.insert (lines 693-705); Store.insert hands
\* back the inserted id alone
InsertDone(call, ok) ==
  /\ pc = "session"
  /\ call \in storeOps
  /\ call.kind = "insert"
  /\ storeOps' = storeOps \ {call}
  /\ IF ok
     THEN /\ store' = [store EXCEPT ![call.id] =
                         [present |-> TRUE, lastActive |-> call.lastActive]]
          /\ sessions' = [sessions EXCEPT ![call.obj] =
                            [@ EXCEPT !.anonymous = FALSE, !.id = call.id,
                                      !.lastActive = 0, !.sid = call.id,
                                      !.got = @ \cup {call.id}]]
          /\ sessionIndex' = [sessionIndex EXCEPT ![call.id] = call.obj]
     ELSE UNCHANGED <<store, sessions, sessionIndex>>
  /\ resolves' = IF call.res = 0 THEN resolves
                 ELSE [resolves EXCEPT ![call.res] = Resolved(call.res, call.obj, ~ok, call.path)]
  /\ UNCHANGED <<notSessVars, clock, writes, issued>>

\* the callback save gave to store.update (lines 710-722)
UpdateDone(call, ok) ==
  /\ pc = "session"
  /\ call \in storeOps
  /\ call.kind = "update"
  /\ storeOps' = storeOps \ {call}
  /\ IF ok
     THEN /\ store' = IF store[call.id].present
                      THEN [store EXCEPT ![call.id].lastActive = call.lastActive]
                      ELSE store
          /\ sessions' = [sessions EXCEPT ![call.obj] =
                            [@ EXCEPT !.anonymous = FALSE, !.id = call.id,
                                      !.lastActive = call.lastActive, !.sid = call.id,
                                      !.got = @ \cup {call.id}]]
          /\ sessionIndex' = [sessionIndex EXCEPT ![call.id] = call.obj]
     ELSE UNCHANGED <<store, sessions, sessionIndex>>
  /\ resolves' = IF call.res = 0 THEN resolves
                 ELSE [resolves EXCEPT ![call.res] = Resolved(call.res, call.obj, ~ok, call.path)]
  /\ UNCHANGED <<notSessVars, clock, writes, issued>>

NextSession ==
  \/ \E d \in ClockSteps : Tick(d)
  \/ CreateAnonymous
  \/ \E sid \in Ids : CreateSession(sid)
  \/ \E o \in 1..MaxCalls : AppSave(o)
  \/ \E call \in storeOps, ok \in BOOLEAN : FindDone(call, ok)
  \/ \E call \in storeOps, ok \in BOOLEAN : InsertDone(call, ok)
  \/ \E call \in storeOps, ok \in BOOLEAN : UpdateDone(call, ok)

SpecSession == InitSession /\ [][NextSession]_vars

\* ------------------------------------------------- the session registry
MaxRegCalls == 4     \* calls made on the registry by requests, sockets, handlers and peers
MaxRegClock == 220002   \* how far the clock of the registry runs: two steps from StartTime

\* options.sessionTimeout and options.maxSessions as the registry is configured here
SessionTimeout == 1000

MaxSessions == 1

\* 60 * 1000: createSession starts a sweep when the last one is older than this
SweepPeriod == 60000

\* the step the clock of the registry takes between two events: longer than
\* the session timeout and than the period of the sweep
RegSteps == {SweepPeriod + 1}

\* this.id of the registry, and the id of another registry on the transport
SelfId == "self"

PeerId == "peer"

Methods == <<"on", "emit", "join", "leave">>

\* queue[method] of bindFauxSocket, and `_${method}` of drainQueue
QueueKey(method) == method

DrainKey(method) == "_" \o method

QueueKeys == {QueueKey(Methods[i]) : i \in 1..4} \cup {DrainKey(Methods[i]) : i \in 1..4}

NoCont == [save |-> "none", who |-> "none", sock |-> 0, sid |-> NoId]

\* the state of the registry as one value, for the operators below
RegState ==
  [clock |-> clock, sessions |-> sessions, sessionIndex |-> sessionIndex, store |-> store,
   storeOps |-> storeOps, issued |-> issued, userSessionIndex |-> userSessionIndex,
   socketIndex |-> socketIndex, sockets |-> sockets, bus |-> bus, sweep |-> sweep]

\* { anonymous: true }
AnonData ==
  [anonymous |-> TRUE, id |-> NoId, uid |-> NoUid, lastActive |-> 0, hasRooms |-> FALSE,
   rooms |-> {}]

\* the array Store.find hands to its callback, read as session data: it has
\* no anonymous, id, uid, lastActive or _rooms property
FoundDocs ==
  [anonymous |-> FALSE, id |-> NoId, uid |-> NoUid, lastActive |-> 0, hasRooms |-> FALSE,
   rooms |-> {}]

\* { id } as Store.insert hands it to its callback
InsertedDoc(id) == [FoundDocs EXCEPT !.id = id]

\* a row of the store: what the registry or a peer can see of it
NoRow == [present |-> FALSE, lastActive |-> 0, hasRooms |-> FALSE, rooms |-> {}]

\* the row insertOne makes of the data of a session
RowOf(d) ==
  [present |-> TRUE, lastActive |-> d.lastActive, hasRooms |-> d.hasRooms, rooms |-> d.rooms]

\* updateOne with $set of the fields the data has: the others are kept
MergeRow(row, d) ==
  IF ~row.present THEN row
  ELSE [present |-> TRUE,
        lastActive |-> IF d.lastActive # 0 THEN d.lastActive ELSE row.lastActive,
        hasRooms |-> row.hasRooms \/ d.hasRooms,
        rooms |-> IF d.hasRooms THEN d.rooms ELSE row.rooms]

\* new Session(data, store, ...): the faux socket starts with an empty _bindQueue
newSession(data, now) ==
  [data |-> [data EXCEPT !.lastActive = IF @ = 0 THEN now ELSE @],
   sid |-> data.id,
   bindQueue |-> [q \in QueueKeys |-> <<>>]]

\* a number that tells a store call of the registry from the others in flight
FreeRegOp(st) ==
  CHOOSE n \in 1..(Cardinality(st.storeOps) + 1) : \A c \in st.storeOps : c.n # n

\* SessionStore.publish
publish(st, channel, sid) ==
  LET m == [channel |-> channel, id |-> SelfId, sid |-> sid]
  IN  [st EXCEPT !.bus.queue = @ \cup {m}, !.bus.published = @ \cup {m}]

\* the sweep trigger at the end of createSession (lines 284-289): lastRun is
\* undefined until cleanupInactiveSessions has run once, and undefined < n is false
sweepTrigger(st) ==
  IF st.sweep.lastRun # 0 /\ st.sweep.lastRun < st.clock - SweepPeriod
  THEN [st EXCEPT !.sweep.scheduled = IF @ < 1 THEN @ + 1 ELSE @]
  ELSE st

\* a call of session.socket[method]: applied to the live sockets of the
\* session, or pushed on queue[method] when there is none
fauxSocketCall(st, o, method, label) ==
  LET s == st.sessions[o]
      lives == IF s.sid = NoId THEN {} ELSE st.socketIndex[s.sid]
  IN  IF lives # {}
      THEN [st EXCEPT !.sockets = [c \in Sockets |->
                        IF c \in lives
                        THEN [@[c] EXCEPT !.applied = Append(@, label)]
                        ELSE @[c]]]
      ELSE [st EXCEPT !.sessions[o].bindQueue[QueueKey(method)] = Append(@, label)]

\* drainQueue for the four methods, in the order of the 'socket' listener
RECURSIVE drainQueues(_, _, _)
drainQueues(queue, applied, i) ==
  IF i > 4 THEN applied
  ELSE drainQueues(queue, applied \o queue[DrainKey(Methods[i])], i + 1)

\* the sockets of a session leave every room but `except` (_leaveAllRooms)
leaveAllRooms(st, o, except) ==
  LET s == st.sessions[o]
      lives == IF s.sid = NoId THEN {} ELSE st.socketIndex[s.sid]
  IN  [st EXCEPT !.sockets = [c \in Sockets |->
                   IF c \in lives THEN [@[c] EXCEPT !.rooms = @ \cap except] ELSE @[c]]]

RECURSIVE createSession(_, _, _)
RECURSIVE finishCreate(_, _, _, _)
RECURSIVE save(_, _, _)
RECURSIVE saveDone(_, _, _, _)
RECURSIVE indexSocket(_, _, _, _)

\* indexSocket(sid, client, session), with the refreshSessionRooms it starts
indexSocket(st, sid, c, o) ==
  LET s1 == [st EXCEPT !.socketIndex[sid] = @ \cup {c},
                       !.sockets[c].applied =
                          drainQueues(st.sessions[o].bindQueue, @, 1)]
  IN  createSession(s1, sid, [NoCont EXCEPT !.who = "refresh", !.sid = sid])

\* what the callback fn of createSession(sid, fn) does, by its caller: the
\* server for a request, getSession for a socket, refreshSessionRooms
finishCreate(st, cont, o, err) ==
  LET d == st.sessions[o].data
  IN  CASE cont.who \in {"connect", "setSession"} ->
             IF ~err /\ d.id = cont.sid
             THEN LET s1 == IF cont.who = "setSession"
                            THEN [st EXCEPT !.socketIndex =
                                    [i \in Ids |-> @[i] \ {cont.sock}]]
                            ELSE st
                  IN  indexSocket(s1, cont.sid, cont.sock, o)
             ELSE st
        [] cont.who = "refresh" ->
             IF ~err /\ d.id = cont.sid /\ d.hasRooms
             THEN LET s1 == leaveAllRooms(st, o, d.rooms)
                  IN  [s1 EXCEPT !.sockets = [c \in Sockets |->
                                   IF c \in s1.socketIndex[cont.sid]
                                   THEN [@[c] EXCEPT !.rooms = @ \cup d.rooms]
                                   ELSE @[c]]]
             ELSE st
        [] OTHER -> st

\* what the callback of save does, by the caller of save
saveDone(st, cont, o, err) ==
  CASE cont.save = "rooms" ->
         IF err THEN st ELSE publish(st, "refreshrooms", st.sessions[o].sid)
    [] cont.save = "fast" -> finishCreate(st, cont, o, FALSE)
    [] cont.save = "store" -> finishCreate(st, cont, o, err)
    [] OTHER -> st

\* Session.prototype.save up to its return
save(st, o, cont) ==
  LET d == st.sessions[o].data
  IN  IF d.anonymous
      THEN LET id == st.issued.ids + 1
           IN  [st EXCEPT !.issued.ids = id,
                          !.storeOps = @ \cup
                             {[kind |-> "insert", id |-> id, obj |-> o,
                               snap |-> [d EXCEPT !.anonymous = FALSE, !.id = id],
                               cont |-> cont, n |-> FreeRegOp(st)]}]
      ELSE IF d.id = NoId
      THEN saveDone(st, cont, o, TRUE)
      ELSE [st EXCEPT !.storeOps = @ \cup
                        {[kind |-> "update", id |-> d.id, obj |-> o, snap |-> d,
                          cont |-> cont, n |-> FreeRegOp(st)]}]

\* createSession(sid, fn) with a sid, up to its return
createSession(st, sid, cont) ==
  LET c == st.sessionIndex[sid]
  IN  IF c # 0 /\ st.sessions[c].data.lastActive # 0
              /\ st.sessions[c].data.lastActive >= st.clock - MaxAge
      THEN IF NeedsTouch(st.sessions[c].data, st.clock)
           THEN save([st EXCEPT !.sessions[c].data.lastActive = st.clock], c,
                     [cont EXCEPT !.save = "fast"])
           ELSE finishCreate(st, cont, c, FALSE)
      ELSE sweepTrigger(
             [st EXCEPT !.storeOps = @ \cup
                          {[kind |-> "find", id |-> sid, obj |-> 0, snap |-> FoundDocs,
                            cont |-> cont, n |-> FreeRegOp(st)]}])

\* the callback createSession gave to find (lines 252-279)
findDone(st, op, ok) ==
  LET s0 == [st EXCEPT !.storeOps = @ \ {op}]
  IN  IF ~ok THEN s0   \* fn(err): no caller does anything with it
      ELSE LET sid == op.id
               c == s0.sessionIndex[sid]
               o == IF c # 0 THEN c ELSE Len(s0.sessions) + 1
               s1 == IF c # 0 THEN s0
                     ELSE [s0 EXCEPT !.sessions = Append(@, newSession(FoundDocs, s0.clock)),
                                     !.sessionIndex[sid] = o,
                                     !.sweep.sessionCount = @ + 1]
           IN  IF NeedsTouch(s1.sessions[o].data, s1.clock)
               THEN save([s1 EXCEPT !.sessions[o].data.lastActive = s1.clock], o,
                         [op.cont EXCEPT !.save = "store"])
               ELSE finishCreate(s1, op.cont, o, FALSE)

\* the callback save gave to store.insert (lines 693-705)
insertDone(st, op, ok) ==
  LET s0 == [st EXCEPT !.storeOps = @ \ {op}]
      s1 == IF ok
            THEN [s0 EXCEPT !.store[op.id] = RowOf(op.snap),
                            !.sessions[op.obj].data = InsertedDoc(op.id),
                            !.sessions[op.obj].sid = op.id,
                            !.sessionIndex[op.id] = op.obj]
            ELSE s0
  IN  saveDone(s1, op.cont, op.obj, ~ok)

\* the callback save gave to store.update (lines 710-723)
updateDone(st, op, ok) ==
  LET s0 == [st EXCEPT !.storeOps = @ \ {op}]
      s1 == IF ok
            THEN [s0 EXCEPT !.store[op.id] = MergeRow(@, op.snap),
                            !.sessions[op.obj].data = op.snap,
                            !.sessions[op.obj].sid = op.id,
                            !.sessionIndex[op.id] = op.obj,
                            !.userSessionIndex =
                               IF op.snap.uid = NoUid THEN @
                               ELSE [@ EXCEPT ![op.snap.uid][op.id] = op.obj]]
            ELSE s0
  IN  saveDone(s1, op.cont, op.obj, ~ok)

\* SessionStore.removeSessionFromMemory
(* variant: the removal is announced to the other registries *)
removeSessionFromMemoryAnnounced(st, sid) ==
  publish([st EXCEPT !.sessionIndex[sid] = 0,
                     !.sweep.sessionCount = IF st.sessionIndex[sid] # 0 THEN @ - 1 ELSE @,
                     !.userSessionIndex = [u \in Uids |-> [@[u] EXCEPT ![sid] = 0]],
                     !.socketIndex[sid] = {}],
          "remove", sid)

removeSessionFromMemory(st, sid) ==
  [st EXCEPT !.sessionIndex[sid] = 0,
             !.sweep.sessionCount = IF st.sessionIndex[sid] # 0 THEN @ - 1 ELSE @,
             !.userSessionIndex = [u \in Uids |-> [@[u] EXCEPT ![sid] = 0]],
             !.socketIndex[sid] = {}]

RECURSIVE removeAllFromMemory(_, _)
removeAllFromMemory(st, sids) ==
  IF sids = {} THEN st
  ELSE LET sid == CHOOSE i \in sids : TRUE
       IN  removeAllFromMemory(removeSessionFromMemory(st, sid), sids \ {sid})

\* the keys of sessionIndex
LiveIds(st) == {i \in Ids : st.sessionIndex[i] # 0}

LastActiveOf(st, i) == st.sessions[st.sessionIndex[i]].data.lastActive

\* the sids the sort and slice of lines 372-376 can give: n keys none of
\* which is newer than a key left out (an undefined lastActive makes the
\* comparator answer NaN, which orders nothing)
OldestChoices(st) ==
  LET over == st.sweep.sessionCount - MaxSessions
      n == IF over <= 0 THEN 0
           ELSE IF over > Cardinality(LiveIds(st)) THEN Cardinality(LiveIds(st)) ELSE over
  IN  {S \in SUBSET LiveIds(st) :
         /\ Cardinality(S) = n
         /\ \A i \in S, j \in LiveIds(st) \ S :
              ~(LastActiveOf(st, i) # 0 /\ LastActiveOf(st, j) # 0
                  /\ LastActiveOf(st, j) < LastActiveOf(st, i))}

\* SessionStore.cleanupInactiveSessions, `oldest` being what the sort gave;
\* its deleteMany has no callback to tell from another, so it carries no number
(* variant: the live sockets of a session are not looked at *)
cleanupWhateverSockets(st, oldest) ==
  LET idle == {i \in LiveIds(st) :
                 /\ LastActiveOf(st, i) # 0
                 /\ LastActiveOf(st, i) < st.clock - SessionTimeout
                 /\ TRUE}
      s1 == removeAllFromMemory(st, idle \cup oldest)
  IN  [s1 EXCEPT !.sweep.sessionCount = Cardinality(LiveIds(s1)),
                 !.sweep.lastRun = st.clock,
                 !.storeOps = @ \cup
                    {[kind |-> "purge", id |-> NoId, obj |-> 0,
                      snap |-> [FoundDocs EXCEPT !.lastActive = st.clock - MaxAge],
                      cont |-> NoCont, n |-> 0]}]

cleanupInactiveSessions(st, oldest) ==
  LET idle == {i \in LiveIds(st) :
                 /\ LastActiveOf(st, i) # 0
                 /\ LastActiveOf(st, i) < st.clock - SessionTimeout
                 /\ st.socketIndex[i] = {}}
      s1 == removeAllFromMemory(st, idle \cup oldest)
  IN  [s1 EXCEPT !.sweep.sessionCount = Cardinality(LiveIds(s1)),
                 !.sweep.lastRun = st.clock,
                 !.storeOps = @ \cup
                    {[kind |-> "purge", id |-> NoId, obj |-> 0,
                      snap |-> [FoundDocs EXCEPT !.lastActive = st.clock - MaxAge],
                      cont |-> NoCont, n |-> 0]}]

\* Session.prototype.remove(fn) up to its return
remove(st, o) ==
  LET d == st.sessions[o].data
  IN  IF d.id = NoId THEN st
      ELSE LET s1 == [st EXCEPT !.sessionIndex[d.id] = 0,
                                !.userSessionIndex =
                                   IF d.uid = NoUid THEN @
                                   ELSE [@ EXCEPT ![d.uid][d.id] = 0]]
               s2 == leaveAllRooms(s1, o, {})
               s3 == save([s2 EXCEPT !.sessions[o].data.rooms = {},
                                     !.sessions[o].data.hasRooms = TRUE],
                          o, [NoCont EXCEPT !.save = "rooms"])
               s4 == [s3 EXCEPT !.socketIndex[d.id] = {}]
               s5 == [s4 EXCEPT !.storeOps = @ \cup
                                  {[kind |-> "remove", id |-> d.id, obj |-> o, snap |-> d,
                                    cont |-> NoCont, n |-> FreeRegOp(s4)]}]
           IN  IF st.sessions[o].sid # NoId THEN publish(s5, "remove", d.id) ELSE s5

\* the 'message' handler of the subscriber client (lines 75-103)
(* variant: the origin of the notification is not tested *)
onMessageAnyOrigin(st, m) ==
  CASE m.channel = "refreshrooms" ->
         IF m.sid # NoId /\ st.socketIndex[m.sid] # {}
         THEN createSession(st, m.sid, [NoCont EXCEPT !.who = "refresh", !.sid = m.sid])
         ELSE st
    [] m.channel = "remove" ->
         IF m.sid # NoId /\ st.sessionIndex[m.sid] # 0
         THEN removeSessionFromMemory(leaveAllRooms(st, st.sessionIndex[m.sid], {}), m.sid)
         ELSE st
    [] OTHER -> st

onMessage(st, m) ==
  CASE m.channel = "refreshrooms" ->
         IF m.id # SelfId /\ m.sid # NoId /\ st.socketIndex[m.sid] # {}
         THEN createSession(st, m.sid, [NoCont EXCEPT !.who = "refresh", !.sid = m.sid])
         ELSE st
    [] m.channel = "remove" ->
         IF m.id # SelfId /\ m.sid # NoId /\ st.sessionIndex[m.sid] # 0
         THEN removeSessionFromMemory(leaveAllRooms(st, st.sessionIndex[m.sid], {}), m.sid)
         ELSE st
    [] OTHER -> st

\* a registry just constructed; the store may hold the row of a session
\* another registry inserted
NewRegistry ==
  [clock |-> StartTime,
   sessions |-> <<>>,
   sessionIndex |-> [i \in Ids |-> 0],
   store |-> [i \in Ids |-> IF i = ForeignId
                             THEN [present |-> TRUE, lastActive |-> StartTime,
                                   hasRooms |-> FALSE, rooms |-> {}]
                             ELSE NoRow],
   storeOps |-> {},
   issued |-> [ids |-> 0, calls |-> 0],
   userSessionIndex |-> [u \in Uids |-> [i \in Ids |-> 0]],
   socketIndex |-> [i \in Ids |-> {}],
   sockets |-> [c \in Sockets |-> SocketIdle],
   bus |-> [queue |-> {}, published |-> {}, heard |-> {}],
   sweep |-> SweepIdle]

\* the registry st after a request without cookie whose handler saved its
\* session, the store having answered
Saved(st) ==
  LET o == Len(st.sessions) + 1
      s1 == save([st EXCEPT !.sessions = Append(@, newSession(AnonData, st.clock))], o,
                 [NoCont EXCEPT !.save = "app"])
      op == CHOOSE p \in s1.storeOps : p.kind = "insert" /\ p.obj = o
  IN  insertDone(s1, op, TRUE)

\* the registry is in the state st and nothing else of the server runs
RegistryAt(st) ==
  /\ resources = <<>>
  /\ routeCache = EmptyCache
  /\ lastResourceUpdate = 0
  /\ lastResult = NoResult
  /\ reqUrl = <<>>
  /\ pc = "registry"
  /\ RequestIdle
  /\ ScriptOff
  /\ resolves = <<>>
  /\ writes = [i \in Ids |-> [last |-> 0, soon |-> FALSE]]
  /\ clock = st.clock
  /\ sessions = st.sessions
  /\ sessionIndex = st.sessionIndex
  /\ store = st.store
  /\ storeOps = st.storeOps
  /\ issued = st.issued
  /\ userSessionIndex = st.userSessionIndex
  /\ socketIndex = st.socketIndex
  /\ sockets = st.sockets
  /\ bus = st.bus
  /\ sweep = st.sweep

InitRegistry == RegistryAt(NewRegistry)

\* a registry that holds one saved session
InitSaved == RegistryAt(Saved(NewRegistry))

notRegVars == <<matchVars, requestVars, ctx, scriptVars, resolves, writes>>

\* the registry goes to the state st
Commit(st) ==
  /\ clock' = st.clock
  /\ sessions' = st.sessions
  /\ sessionIndex' = st.sessionIndex
  /\ store' = st.store
  /\ storeOps' = st.storeOps
  /\ issued' = st.issued
  /\ userSessionIndex' = st.userSessionIndex
  /\ socketIndex' = st.socketIndex
  /\ sockets' = st.sockets
  /\ bus' = st.bus
  /\ sweep' = st.sweep
  /\ UNCHANGED notRegVars

\* the event loop takes a new event: the process.nextTick callbacks run
\* before it does
Ready == pc = "registry" /\ sweep.scheduled = 0

CanCall == Ready /\ issued.calls < MaxRegCalls

\* the state in which a call from outside finds the registry
AtCall == [RegState EXCEPT !.issued.calls = @ + 1]

\* the ids a client can present: the one of the peer's session, and those
\* a session of this process carries
RegPresentable(sid) ==
  sid = ForeignId \/ \E o \in 1..Len(sessions) : sessions[o].sid = sid

\* time passes
RegTick(d) ==
  /\ Ready
  /\ clock + d <= MaxRegClock
  /\ Commit([RegState EXCEPT !.clock = @ + d])

\* the server resolves the session of a request: createSession(sid, fn),
\* sid being undefined when the request carries no cookie
RequestSession(sid) ==
  /\ CanCall
  /\ sid = NoId \/ RegPresentable(sid)
  /\ Commit(IF sid = NoId
            THEN sweepTrigger([AtCall EXCEPT !.sessions =
                                 Append(@, newSession(AnonData, clock))])
            ELSE createSession(AtCall, sid, [NoCont EXCEPT !.who = "request", !.sid = sid]))

\* session.save() called by a handler
SessionSave(o) ==
  /\ CanCall
  /\ o \in 1..Len(sessions)
  /\ Commit(save(AtCall, o, [NoCont EXCEPT !.save = "app"]))

\* session.joinRooms(room)
SessionJoinRooms(o, room) ==
  /\ CanCall
  /\ o \in 1..Len(sessions)
  /\ LET s1 == [AtCall EXCEPT !.sessions[o].data.rooms = @ \cup {room},
                              !.sessions[o].data.hasRooms = TRUE]
         s2 == fauxSocketCall(s1, o, "join", issued.calls + 1)
         lives == IF sessions[o].sid = NoId THEN {} ELSE socketIndex[sessions[o].sid]
         s3 == [s2 EXCEPT !.sockets = [c \in Sockets |->
                            IF c \in lives THEN [@[c] EXCEPT !.rooms = @ \cup {room}]
                            ELSE @[c]]]
     IN  Commit(save(s3, o, [NoCont EXCEPT !.save = "rooms"]))

\* session.leaveRooms(room)
SessionLeaveRooms(o, room) ==
  /\ CanCall
  /\ o \in 1..Len(sessions)
  /\ LET s1 == [AtCall EXCEPT !.sessions[o].data.rooms = @ \ {room},
                              !.sessions[o].data.hasRooms = TRUE]
         s2 == fauxSocketCall(s1, o, "leave", issued.calls + 1)
         lives == IF sessions[o].sid = NoId THEN {} ELSE socketIndex[sessions[o].sid]
         s3 == [s2 EXCEPT !.sockets = [c \in Sockets |->
                            IF c \in lives THEN [@[c] EXCEPT !.rooms = @ \ {room}]
                            ELSE @[c]]]
     IN  Commit(save(s3, o, [NoCont EXCEPT !.save = "rooms"]))

\* session.set({ uid: u }): u = NoUid clears the uid
SessionSet(o, u) ==
  /\ CanCall
  /\ o \in 1..Len(sessions)
  /\ sessions[o].data.uid # u
  /\ LET s1 == [AtCall EXCEPT !.sessions[o].data.uid = u]
     IN  Commit(IF u = NoUid THEN s1
                ELSE fauxSocketCall(s1, o, "join", issued.calls + 1))

\* session.socket[method](...) called by a handler
FauxCall(o, method) ==
  /\ CanCall
  /\ o \in 1..Len(sessions)
  /\ Commit(fauxSocketCall(AtCall, o, method, issued.calls + 1))

\* session.remove(fn)
SessionRemove(o) ==
  /\ CanCall
  /\ o \in 1..Len(sessions)
  /\ Commit(remove(AtCall, o))

\* a socket connects, with the sid cookie of its handshake (or none)
SocketConnect(c, sid) ==
  /\ CanCall
  /\ ~sockets[c].open
  /\ ~sockets[c].gone
  /\ sid = NoId \/ RegPresentable(sid)
  /\ LET s1 == [AtCall EXCEPT !.sockets[c].open = TRUE]
     IN  Commit(IF sid = NoId THEN s1
                ELSE IF sessionIndex[sid] # 0
                THEN indexSocket(s1, sid, c, sessionIndex[sid])
                ELSE createSession(s1, sid, [NoCont EXCEPT !.who = "connect",
                                                          !.sock = c, !.sid = sid]))

\* the socket sends server:setSession { sid }
SocketSetSession(c, sid) ==
  /\ CanCall
  /\ sockets[c].open
  /\ RegPresentable(sid)
  /\ Commit(IF sessionIndex[sid] # 0
            THEN indexSocket([AtCall EXCEPT !.socketIndex = [i \in Ids |-> @[i] \ {c}]],
                             sid, c, sessionIndex[sid])
            ELSE createSession(AtCall, sid, [NoCont EXCEPT !.who = "setSession",
                                                          !.sock = c, !.sid = sid]))

\* the socket disconnects
SocketDisconnect(c) ==
  /\ Ready
  /\ sockets[c].open
  /\ Commit([RegState EXCEPT !.sockets[c].open = FALSE,
                             !.sockets[c].gone = TRUE,
                             !.socketIndex = [i \in Ids |-> @[i] \ {c}]])

\* a store call completes
StoreDone(op, ok) ==
  /\ Ready
  /\ op \in storeOps
  /\ Commit(CASE op.kind = "find" -> findDone(RegState, op, ok)
              [] op.kind = "insert" -> insertDone(RegState, op, ok)
              [] op.kind = "update" -> updateDone(RegState, op, ok)
              [] op.kind = "remove" ->
                   [RegState EXCEPT !.storeOps = @ \ {op},
                                    !.store[op.id] = IF ok THEN NoRow ELSE @]
              [] OTHER ->
                   [RegState EXCEPT !.storeOps = @ \ {op},
                                    !.store = IF ~ok THEN @
                                              ELSE [i \in Ids |->
                                                      IF @[i].lastActive < op.snap.lastActive
                                                      THEN NoRow ELSE @[i]]])

\* cleanupInactiveSessions() called from outside the registry
CleanupCall ==
  /\ CanCall
  /\ \E oldest \in OldestChoices(AtCall) : Commit(cleanupInactiveSessions(AtCall, oldest))

\* the process.nextTick callback createSession scheduled
SweepTick ==
  /\ pc = "registry"
  /\ sweep.scheduled > 0
  /\ LET s0 == [RegState EXCEPT !.sweep.scheduled = @ - 1]
     IN  \E oldest \in OldestChoices(s0) : Commit(cleanupInactiveSessions(s0, oldest))

\* on another registry a session of the store joins a room: the row gets
\* it and the refresh notification is published
PeerJoinRooms(sid, room) ==
  /\ CanCall
  /\ store[sid].present
  /\ Commit([AtCall EXCEPT !.store[sid].rooms = @ \cup {room},
                           !.store[sid].hasRooms = TRUE,
                           !.bus.queue = @ \cup {[channel |-> "refreshrooms", id |-> PeerId,
                                                  sid |-> sid]}])

\* another registry removes a session of the store
PeerRemove(sid) ==
  /\ CanCall
  /\ store[sid].present
  /\ Commit([AtCall EXCEPT !.store[sid] = NoRow,
                           !.bus.queue = @ \cup {[channel |-> "remove", id |-> PeerId,
                                                  sid |-> sid]}])

\* the transport delivers a notification to this registry; `heard` keeps it
\* with the sockets the session had at that moment, and whether the session
\* was in the live index
Deliver(m) ==
  /\ Ready
  /\ m \in bus.queue
  /\ Commit(onMessage([RegState EXCEPT !.bus.queue = @ \ {m},
                                       !.bus.heard = @ \cup
                                          {[msg |-> m, socks |-> socketIndex[m.sid],
                                            known |-> sessionIndex[m.sid] # 0]}], m))

\* a request without cookie whose handler leaves its session alone:
\* createSession makes the session and the server forgets it with the request
RequestNoCookie ==
  /\ Ready
  /\ Commit(sweepTrigger([RegState EXCEPT !.sweep.requests = 1 - @]))

\* the sessions a handler can hold
Objs == 1..MaxRegCalls

\* requests, saves and changes of uid, with the store answering
NextUsers ==
  \/ \E sid \in {NoId} \cup Ids : RequestSession(sid)
  \/ \E o \in Objs : SessionSave(o)
  \/ \E o \in Objs, u \in {NoUid} \cup Uids : SessionSet(o, u)
  \/ \E op \in storeOps, ok \in BOOLEAN : StoreDone(op, ok)

SpecUsers == InitSaved /\ [][NextUsers]_vars

\* sockets connecting and changing session, handlers using the socket of a
\* session
NextSockets ==
  \/ \E sid \in {NoId} \cup Ids : RequestSession(sid)
  \/ \E o \in Objs : SessionRemove(o)
  \/ \E c \in Sockets, sid \in {NoId} \cup Ids : SocketConnect(c, sid)
  \/ \E c \in Sockets, sid \in Ids : SocketSetSession(c, sid)
  \/ \E c \in Sockets : SocketDisconnect(c)
  \/ \E op \in storeOps, ok \in BOOLEAN : StoreDone(op, ok)

SpecSockets == InitSaved /\ [][NextSockets]_vars

\* handlers using the socket of a session before and after a socket is bound
NextFaux ==
  \/ \E sid \in {NoId} \cup Ids : RequestSession(sid)
  \/ \E o \in Objs, i \in 1..4 : FauxCall(o, Methods[i])
  \/ \E c \in Sockets, sid \in {NoId} \cup Ids : SocketConnect(c, sid)
  \/ \E op \in storeOps, ok \in BOOLEAN : StoreDone(op, ok)

SpecFaux == InitSaved /\ [][NextFaux]_vars

\* sessions removed by a handler
NextRemove ==
  \/ \E sid \in {NoId} \cup Ids : RequestSession(sid)
  \/ \E o \in Objs : SessionSave(o)
  \/ \E o \in Objs, u \in {NoUid} \cup Uids : SessionSet(o, u)
  \/ \E o \in Objs : SessionRemove(o)
  \/ \E op \in storeOps, ok \in BOOLEAN : StoreDone(op, ok)
  \/ \E m \in bus.queue : Deliver(m)

SpecRemove == InitRegistry /\ [][NextRemove]_vars

\* two registries on one store and one transport
NextCluster ==
  \/ \E sid \in {NoId} \cup Ids : RequestSession(sid)
  \/ \E o \in Objs, room \in Rooms : SessionJoinRooms(o, room)
  \/ \E o \in Objs : SessionRemove(o)
  \/ \E c \in Sockets, sid \in {NoId} \cup Ids : SocketConnect(c, sid)
  \/ \E op \in storeOps, ok \in BOOLEAN : StoreDone(op, ok)
  \/ \E sid \in Ids, room \in Rooms : PeerJoinRooms(sid, room)
  \/ \E sid \in Ids : PeerRemove(sid)
  \/ \E m \in bus.queue : Deliver(m)

SpecCluster == InitRegistry /\ [][NextCluster]_vars

\* room changes of the sessions of this registry, with a peer that removes
\* sessions from the store
NextRooms ==
  \/ \E sid \in {NoId} \cup Ids : RequestSession(sid)
  \/ \E o \in Objs, room \in Rooms : SessionJoinRooms(o, room)
  \/ \E o \in Objs, room \in Rooms : SessionLeaveRooms(o, room)
  \/ \E c \in Sockets, sid \in {NoId} \cup Ids : SocketConnect(c, sid)
  \/ \E op \in storeOps, ok \in BOOLEAN : StoreDone(op, ok)
  \/ \E sid \in Ids : PeerRemove(sid)

SpecRooms == InitSaved /\ [][NextRooms]_vars

\* the sweep of the sessions in memory
NextSweep ==
  \/ \E d \in RegSteps : RegTick(d)
  \/ \E sid \in {NoId} \cup Ids : RequestSession(sid)
  \/ \E o \in Objs : SessionSave(o)
  \/ \E c \in Sockets, sid \in {NoId} \cup Ids : SocketConnect(c, sid)
  \/ \E op \in storeOps, ok \in BOOLEAN : StoreDone(op, ok)
  \/ CleanupCall
  \/ SweepTick

SpecSweep == InitRegistry /\ [][NextSweep]_vars

\* a registry that keeps resolving sessions for the requests that come in
NextSweepFair ==
  \/ \E d \in RegSteps : RegTick(d)
  \/ \E sid \in Ids : RequestSession(sid)
  \/ RequestNoCookie
  \/ \E op \in storeOps, ok \in BOOLEAN : StoreDone(op, ok)
  \/ CleanupCall
  \/ SweepTick

\* requests keep coming, the store answers, and a scheduled sweep runs
SpecSweepFair ==
  /\ InitRegistry
  /\ [][NextSweepFair]_vars
  /\ WF_vars(RequestNoCookie)
  /\ WF_vars(SweepTick)
  /\ WF_vars(\E op \in storeOps, ok \in BOOLEAN : StoreDone(op, ok))

\* ------------------------------------------------------------- properties

\* number of non-empty segments of a path
RECURSIVE SegmentCount(_)
SegmentCount(path) ==
  IF path = <<>> THEN 0
  ELSE IF Head(path) # "/" /\ (Len(path) = 1 \/ path[2] = "/")
       THEN 1 + SegmentCount(Tail(path))
       ELSE SegmentCount(Tail(path))

\* a base path matches a url that equals it or continues it with / or ?
BaseMatches(path, u) ==
  LET base == IF path = <<"/">> THEN <<>> ELSE path
  IN  \E n \in 0..Len(u) :
        /\ SubSeq(u, 1, n) = base
        /\ n = Len(u) \/ u[n + 1] \in {"/", "?"}

\* C3: matchResources(url) returns exactly the registered resources whose
\* base path matches url, each once, by non-increasing segment count, ties
\* in registration order; with /a and /a/b registered, /a/b/c gets /a/b first.
C3_MatchOrder ==
  lastResult.called =>
    LET r == lastResult.result
        u == lastResult.url
    IN  /\ \A i \in 1..Len(r) : r[i] \in 1..Len(resources)
        /\ \A i, j \in 1..Len(r) : i # j => r[i] # r[j]
        /\ {r[i] : i \in 1..Len(r)} =
             {x \in 1..Len(resources) : BaseMatches(resources[x], u)}
        /\ \A i, j \in 1..Len(r) :
             i < j => /\ SegmentCount(resources[r[i]]) >= SegmentCount(resources[r[j]])
                      /\ SegmentCount(resources[r[i]]) = SegmentCount(resources[r[j]])
                           => r[i] < r[j]
        /\ u = UrlABC =>
             \A i, j \in 1..Len(r) :
               resources[r[i]] = PathAB /\ resources[r[j]] = PathA => i < j

C3_Witness ==
  /\ lastResult.called
  /\ lastResult.url = UrlABC
  /\ resources = <<PathA, PathAB, PathA>>
  /\ lastResult.result = <<2, 1, 3>>

\* C8: a done call on a Context one of whose earlier done calls completed the
\* response changes nothing of the response: status, headers, body.
C8_DoneTwice ==
  [][(ctx'.calls = ctx.calls + 1 /\ ctx.calls >= 1 /\ ctx.completed) => res' = res]_vars

C8_Witness ==
  /\ pc = "context"
  /\ ctx.calls = 2
  /\ ctx.completed
  /\ Truthy(ctx.err)
  /\ res.writer = "done"

\* a done(err) call with an error, on a response not finished whose headers
\* are still unsent
DoneErrStep ==
  /\ ctx'.calls = ctx.calls + 1
  /\ Truthy(ctx'.err)
  /\ ctx'.err.status = 0
  /\ ~res.finished
  /\ ~res.headersSent

\* the error responder, and nothing of the success path, ended the response
ErrorResponseOnly ==
  /\ res'.writableEnded
  /\ res'.writer = "doneErr"
  /\ res'.body.type = "json"
  /\ res'.body.content = ctx'.err.message
  /\ res'.headers["Content-Type"] = "application/json; charset=utf-8"
  /\ \A n \in HeaderNames \ {"Content-Type"} : res'.headers[n] = res.headers[n]

\* C9 (as stated): done(err) ends the response through the error responder
\* with status err.statusCode when err carries one and 400 when it carries
\* none; no success body or headers are written.
C9_Original ==
  [][DoneErrStep =>
       /\ ErrorResponseOnly
       /\ res'.wireStatus =
            IF ctx'.err.statusCode # 0 THEN ctx'.err.statusCode ELSE 400]_vars

\* C9 (amended): the status is err.statusCode when that lies in 400..599,
\* 500 when err carries another statusCode, 400 when it carries none; no
\* success body or headers are written.
C9_DoneError ==
  [][DoneErrStep =>
       /\ ErrorResponseOnly
       /\ res'.wireStatus =
            IF ctx'.err.statusCode = 0 THEN 400
            ELSE IF ctx'.err.statusCode \in 400..599 THEN ctx'.err.statusCode
                 ELSE 500]_vars

C9_Witness ==
  /\ pc = "context"
  /\ ctx.calls = 1
  /\ ctx.err = ErrBoom
  /\ res.writer = "doneErr"
  /\ res.wireStatus = 400

C1_FinalizeWins ==
  \A j \in CandIdx :
    (h[j].calledDone /\ ~h[j].calledNext) =>
      /\ \A i \in CandIdx : i > j => h[i].phase = "idle"
      /\ tally.notFound = 0

\* candidate j has settled: it finalized, deferred or failed, or the
\* response was ended or closed
HasOutcome(j) ==
  \/ h[j].calledDone
  \/ h[j].calledNext
  \/ h[j].failed
  \/ res.writableEnded
  \/ resClosed

\* C2 (as stated): the handler of candidate j+1 is not invoked before
\* candidate j has settled, so at most one invoked candidate is unsettled.
C2_OneAtATime ==
  /\ \A j \in CandIdx :
       (j + 1 \in CandIdx /\ h[j + 1].phase # "idle") => HasOutcome(j)
  /\ Cardinality({j \in CandIdx : h[j].phase # "idle" /\ ~HasOutcome(j)}) <= 1

\* the handler of candidate j did nothing but call next()
OnlyDeferred(j) ==
  /\ h[j].calledNext
  /\ ~h[j].calledDone
  /\ ~h[j].failed
  /\ ~h[j].wrote

NotFoundBody == [type |-> "json", content |-> "Resource not found", fields |-> {"message"}]

FailedFirst(j) ==
  /\ h[j].prom = "rejected"
  /\ h[j].failed
  /\ ~h[j].calledDone
  /\ ~h[j].wrote
  /\ \A i \in CandIdx : i < j => OnlyDeferred(i)

\* C5 (as stated): after a candidate failed, no later candidate is invoked,
\* no 404 is sent, and once route() has ended the error responder has been
\* given the error once and the status is the error's status code (an HTTP
\* error status) if it has one, 500 otherwise.
C5_HandlerError ==
  \A j \in CandIdx :
    FailedFirst(j) =>
      /\ \A i \in CandIdx : i > j => h[i].phase = "idle"
      /\ tally.notFound = 0
      /\ (pc = "end" /\ ~resClosed) =>
           /\ tally.caught = 1
           /\ res.writer = "catch"
           /\ h[j].promErr.statusCode = 0 => res.wireStatus = 500
           /\ h[j].promErr.statusCode \in 400..599 =>
                res.wireStatus = h[j].promErr.statusCode

\* C6: nothing of the request is handled before it is marked routed, the
\* mark stays, and a route() call on a marked request changes nothing: no
\* session handler, no resource handler, nothing written.
C6_RoutedOnce ==
  /\ []((pc \in {"sessions", "dispatch", "await"}
           \/ tally.sessionCbs > 0
           \/ \E j \in CandIdx : h[j].phase # "idle") => routed)
  /\ [][routed => routed']_vars
  /\ [][(routed /\ routeCalls' = routeCalls + 1)
          => UNCHANGED <<pc, sessPending, cands, k, handled, h, res, finishDue,
                         tally>>]_vars

C6_Witness ==
  /\ routeCalls = 2
  /\ routed
  /\ pc = "await"
  /\ h[1].phase = "async"

\* C7 (as stated): when session resolution failed (createSession or a
\* handleSession reported an error) no resource handler is invoked and the
\* response has a 5xx status, whatever the error.
C7_SessionError ==
  tally.sessionErr > 0 =>
    /\ \A j \in CandIdx : h[j].phase = "idle"
    /\ res.writableEnded
    /\ res.wireStatus \in 500..599

\* C11 (as stated): a done call, on its success path and on its error path,
\* never changes the value of a header the response already carries, and
\* sets no header once the headers of the response have been sent.
C11_HeadersKept ==
  [][(ctx'.calls = ctx.calls + 1) =>
       /\ \A n \in HeaderNames : res.headers[n] # "" => res'.headers[n] = res.headers[n]
       /\ res.headersSent => res'.headers = res.headers]_vars

RunIdx == 1..Len(runs)

\* C12 (as stated): every run of a handle, with or without domain functions,
\* whatever its hook body does, invokes onDone exactly once: never twice,
\* and once when nothing of the run is pending any more.
C12_OnDoneOnce ==
  \A i \in RunIdx :
    /\ runs[i].onDone <= 1
    /\ runs[i].phase = "over" => runs[i].onDone = 1

\* C13 (as stated): a run given domain functions whose hook dispatches two
\* wrapped operations invokes onDone only with no operation outstanding, and
\* reaches onDone once both have settled.
C13_WaitsForBoth ==
  \A i \in RunIdx :
    /\ runs[i].onDone > 0 => runs[i].callbackCount = 0
    /\ (runs[i].domain /\ script.body = <<"call", "call">> /\ runs[i].phase = "over")
         => runs[i].ran = 2 /\ runs[i].onDone = 1

\* C14 (as stated): onDone receives the first error raised during the run,
\* and no error when nothing failed.
C14_FirstError ==
  \A i \in RunIdx :
    /\ runs[i].onDone > 0 => runs[i].onDoneErr = runs[i].firstErr
    /\ runs[i].phase = "over" => runs[i].onDone = 1

\* the first statement of the body that cancels, when no statement before it
\* throws (0: there is none)
RECURSIVE CancelAt(_, _)
CancelAt(body, n) ==
  IF n > Len(body) THEN 0
  ELSE IF body[n] \in {"cancel", "cancelIfTrue", "cancelUnlessFalse"} THEN n
  ELSE IF body[n] \in {"throw", "call"} THEN 0
  ELSE CancelAt(body, n + 1)

\* C15 (as stated): a hook that calls cancel(msg, status), cancelIf(true, ...)
\* or cancelUnless(false, ...) executes no statement after the call and the
\* run completes with an error of message msg and status code status;
\* cancelIf(false, ...) and cancelUnless(true, ...) have no effect.
C15_Cancel ==
  \A i \in RunIdx :
    (~runs[i].domain /\ script.compiles /\ runs[i].phase = "over") =>
      LET c == CancelAt(script.body, 1)
      IN  IF c > 0
          THEN /\ runs[i].ran = c
               /\ runs[i].onDone = 1
               /\ runs[i].onDoneErr.message = CancelMsg
               /\ runs[i].onDoneErr.statusCode = CancelStatus
          ELSE (\A n \in 1..Len(script.body) :
                  script.body[n] \in {"stmt", "cancelIfFalse", "cancelUnlessTrue"})
                 => runs[i].ran = Len(script.body) /\ runs[i].onDoneErr = NoErr

\* C16 (as stated): runs that expose the same list of sandbox names use one
\* compiled callable: one compilation and one cache entry per signature.
C16_CompiledOnce ==
  LET sigs == {c.args : c \in script.cache}
  IN  /\ Cardinality(script.cache) = Cardinality(sigs)
      /\ script.compiled <= Cardinality(sigs)

\* C17 (as stated): when the source does not compile, every run of the
\* handle reports the compilation error through onDone exactly once and
\* executes no hook statement.
C17_CompileError ==
  \A i \in RunIdx :
    ~script.compiles =>
      /\ runs[i].ran = 0
      /\ runs[i].onDone <= 1
      /\ runs[i].phase = "over" => runs[i].onDone = 1 /\ runs[i].onDoneErr = ErrSyntax

\* C18 (as stated): for a session id that has a row in the store, lastActive
\* is written at most once in any 10-second window, and every resolution
\* that finds lastActive more than 10 seconds old issues one write.
C18_TouchThrottle ==
  /\ \A i \in Ids : ~writes[i].soon
  /\ \A r \in 1..Len(resolves) :
       (resolves[r].hadRow /\ resolves[r].due) => resolves[r].wrote

\* the resolutions that hand a session to their callback in this step
Returning(r) ==
  /\ r \in 1..Len(resolves')
  /\ resolves'[r].phase = "returned"
  /\ r > Len(resolves) \/ resolves[r].phase = "pending"

\* C19 (as stated): the session createSession(id) returns never has a
\* lastActive older than maxAge, and when the store holds no row under the
\* presented id it is an anonymous session with no id and the live index
\* under the presented id is left as it was.
C19_MissingOrStale ==
  [][\A r \in 1..(Len(resolves) + 1) :
       Returning(r) =>
         LET o == sessions'[resolves'[r].obj]
             sid == resolves'[r].sid
         IN  /\ o.lastActive = 0 \/ o.lastActive >= clock - MaxAge
             /\ ~store[sid].present =>
                  /\ o.anonymous
                  /\ o.id = NoId
                  /\ sessionIndex'[sid] = sessionIndex[sid]]_vars

\* C20 (as stated): a session created anonymous makes no store call, has no
\* id and is not indexed while it was never saved; it carries one generated
\* id only, and once it carries an id the live index holds it under exactly
\* that id.
C20_LazyId ==
  \A o \in 1..Len(sessions) :
    sessions[o].bornAnonymous =>
      /\ ~sessions[o].saved =>
           /\ ~sessions[o].ops
           /\ sessions[o].id = NoId
           /\ sessions[o].sid = NoId
           /\ \A i \in Ids : sessionIndex[i] # o
      /\ Cardinality(sessions[o].got) <= 1
      /\ sessions[o].got # {} =>
           \A i \in Ids : sessionIndex[i] = o <=> i = sessions[o].id

\* C30 (as stated): whatever calls and changes of the resources came before,
\* the list matchResources returns for a url is the list computed afresh
\* from the current resources.
C30_CacheFresh ==
  \A u \in RouteUrls :
    MatchResult(resources, routeCache, lastResourceUpdate, u) = ComputeMatches(resources, u)

\* C21: a session is listed under user u only if its current uid is u; a
\* change of uid takes the session out of the set of the previous user
C21_UserIndexAgrees ==
  \A u \in Uids, i \in Ids :
    userSessionIndex[u][i] # 0 => sessions[userSessionIndex[u][i]].data.uid = u

\* C22: each socket handle is in the live-socket set of at most one session
C22_OneSessionPerSocket ==
  \A c \in Sockets : Cardinality({i \in Ids : c \in socketIndex[i]}) <= 1

\* the operations of the queue q are all in the log `applied` of a socket,
\* in the order of q
FlushedInOrder(q, applied) ==
  /\ \A a \in 1..Len(q) : \E x \in 1..Len(applied) : applied[x] = q[a]
  /\ \A a, b \in 1..Len(q) :
       a < b => \E x, y \in 1..Len(applied) :
                  x < y /\ applied[x] = q[a] /\ applied[y] = q[b]

\* C23: once a socket is indexed for a session, every socket operation that
\* was buffered on the session has been applied to that socket, in the
\* order in which the operations were queued (a session that carries its
\* sid buffers an operation only while it has no live socket)
C23_BufferedFlushed ==
  \A i \in Ids, c \in Sockets :
    sessionIndex[i] # 0 /\ sessions[sessionIndex[i]].sid = i /\ c \in socketIndex[i] =>
      \A m \in 1..4 :
        FlushedInOrder(sessions[sessionIndex[i]].bindQueue[QueueKey(Methods[m])],
                       sockets[c].applied)

\* the notification remove() publishes for the session id
RemoveNotice(id) == [channel |-> "remove", id |-> SelfId, sid |-> id]

\* the session id is in no index of the registry (primed: after the step)
AbsentAfter(id) ==
  /\ sessionIndex'[id] = 0
  /\ \A u \in Uids : userSessionIndex'[u][id] = 0
  /\ socketIndex'[id] = {}

\* C24: remove() on a saved session leaves its id in no index and publishes
\* the remove notification of this registry, and the store callbacks of the
\* removal (the update its saveRooms started) put the session back in no
\* index
C24_RemoveClears ==
  [][/\ \A o \in Objs :
          o <= Len(sessions) /\ sessions[o].sid # NoId /\ SessionRemove(o) =>
            AbsentAfter(sessions[o].sid) /\ RemoveNotice(sessions[o].sid) \in bus'.published
     /\ \A op \in storeOps :
          op \notin storeOps' /\ op.kind = "update" /\ op.cont.save = "rooms"
            /\ sessionIndex[op.id] = 0 =>
              AbsentAfter(op.id)]_vars

\* C25: when the refresh notification of a peer has been delivered for a
\* session that had a socket here, and the lookups it started are over, that
\* socket is in every room the store holds for the session
C25_PeerRoomsJoined ==
  \A note \in bus.heard :
    note.msg.channel = "refreshrooms" /\ note.msg.id = PeerId /\ storeOps = {}
      /\ store[note.msg.sid].present =>
        \A c \in note.socks \cap socketIndex[note.msg.sid] :
          store[note.msg.sid].rooms \subseteq sockets[c].rooms

\* C26: the delivery of a refresh-rooms or remove notification whose origin
\* is this registry changes neither the live session index, nor the user
\* index, nor the socket index, nor the rooms of any socket
C26_OwnOriginIgnored ==
  [][\A m \in bus.queue :
       m.id = SelfId /\ Deliver(m) =>
         /\ sessionIndex' = sessionIndex
         /\ userSessionIndex' = userSessionIndex
         /\ socketIndex' = socketIndex
         /\ \A c \in Sockets : sockets'[c].rooms = sockets[c].rooms]_vars

\* a notification of this registry was delivered to it for a session that
\* was in the live index, or had a socket, when it arrived
C26_OwnOriginHeard ==
  \E note \in bus.heard :
    /\ note.msg.id = SelfId
    /\ note.socks # {} \/ sessionIndex[note.msg.sid] # 0

\* a sweep of the sessions in memory takes place
SweepStep == CleanupCall \/ SweepTick

\* the session id is evicted by the step
Evicted(i) == sessionIndex[i] # 0 /\ sessionIndex'[i] = 0

IdleIndexed(i) ==
  /\ sessionIndex[i] # 0
  /\ socketIndex[i] = {}
  /\ LastActiveOf(RegState, i) # 0
  /\ LastActiveOf(RegState, i) < clock - SessionTimeout

\* C28: a session that is idle is eventually out of the live index (or not
\* idle any more), in a registry that keeps resolving sessions
C28_IdleSwept == \A i \in Ids : IdleIndexed(i) ~> ~IdleIndexed(i)

\* C29: after a sweep the live index holds at most maxSessions sessions,
\* and a session the sweep leaves in the index while it evicts another for
\* the cap is not older than the evicted one
C29_CapAfterSweep ==
  [][SweepStep =>
       /\ Cardinality({i \in Ids : sessionIndex'[i] # 0}) <= MaxSessions
       /\ \A i, j \in Ids :
            Evicted(i) /\ ~IdleIndexed(i) /\ sessionIndex'[j] # 0 /\ sessionIndex[j] # 0 =>
              ~(LastActiveOf(RegState, j) < LastActiveOf(RegState, i))]_vars

DoneThenNext ==
  /\ pc = "await"
  /\ h[k].calledDone
  /\ h[k].nextRequested
  /\ handled \/ res.writer \in {"done", "doneErr"}

DoneAfterNextIdle ==
  \A j \in CandIdx :
    (h[j].calledNext /\ \E a \in RouteDoneArgs : HDone(j, a[1], a[2])) =>
      (/\ res' = res
       /\ handled' = handled
       /\ h'[j].prom = h[j].prom
       /\ h'[j].doneCont = h[j].doneCont)

NextAfterDoneEnds ==
  (DoneThenNext /\ (pc' # pc \/ k' # k)) =>
    (/\ pc' = "end"
     /\ k' = k
     /\ \A j \in CandIdx : j > k => h'[j].phase = "idle"
     /\ tally'.notFound = 0
     /\ res'.writer = res.writer
     /\ res'.body = res.body
     /\ res'.wireStatus = res.wireStatus)

C31_OneOutcome == [][DoneAfterNextIdle /\ NextAfterDoneEnds]_vars

\* a handler called ctx.done and then next, and route() has ended; another
\* handler called next and then ctx.done
C31_Witness ==
  /\ pc = "end"
  /\ tally.notFound = 0
  /\ \E j \in CandIdx :
       /\ h[j].calledDone /\ h[j].nextRequested /\ handled
       /\ res.writer = "done"
       /\ \A i \in CandIdx : i > j => h[i].phase = "idle"
  /\ \E j \in CandIdx :
       h[j].calledDone /\ h[j].nextRequested /\ ~h[j].failed /\ j < k

CandidateOutcome(j) ==
  h[j].calledDone \/ h[j].calledNext \/ h[j].failed \/ res.writableEnded

CandidatesSettle ==
  \A j \in CandIdx : [](h[j].phase # "idle" => <>CandidateOutcome(j))

C36_Responds ==
  CandidatesSettle =>
    ((pc = "dispatch") ~> (pc = "end" /\ (res.writableEnded \/ resClosed)))

\* C34 (as stated): a run given domain functions whose hook dispatches a
\* wrapped operation and then cancels invokes onDone only with no operation
\* outstanding, and once the operation has settled it invokes onDone once,
\* with the cancellation error.
C34_CancelWaits ==
  \A i \in RunIdx :
    /\ runs[i].onDone > 0 => runs[i].callbackCount = 0
    /\ (runs[i].domain /\ script.compiles /\ script.body = <<"call", "cancel">>
          /\ runs[i].phase = "over" /\ runs[i].callbackCount = 0)
         => /\ runs[i].ran = 2
            /\ runs[i].onDone = 1
            /\ runs[i].onDoneErr.message = CancelMsg
            /\ runs[i].onDoneErr.statusCode = CancelStatus

\* C37 (as stated): sessionCount is the number of sessions in the live
\* session index, in every state
C37_CountAgrees == sweep.sessionCount = Cardinality(LiveIds(RegState))

\* C38 (as stated): an anonymous session is persisted under one id at most:
\* the store is never sent two inserts for one session object, and the live
\* index never maps two ids to one session object
C38_OneIdPerSession ==
  \A o \in 1..Len(sessions) :
    /\ Cardinality({op \in storeOps : op.kind = "insert" /\ op.obj = o}) <= 1
    /\ Cardinality({i \in Ids : sessionIndex[i] = o}) <= 1

\* C40 (as stated): a socket that has disconnected is in no session's set of
\* live sockets
C40_GoneUnbound ==
  \A c \in Sockets : sockets[c].gone => \A i \in Ids : c \notin socketIndex[i]

\* C32 (as stated): a createSession call that finds the id in the live index,
\* not older than maxAge, makes no store call and has handed the cached
\* session to its callback when it returns, whatever lastActive is: no
\* store call of the fast path is ever outstanding, with a createSession
\* call waiting for it
C32_FastPathSync ==
  \A c \in storeOps : c.path = "fast" => resolves[c.res].phase # "pending"

\* C39: handling a notification of a peer publishes nothing: neither the
\* delivery of a peer's refresh-rooms or remove notification, nor the
\* completion of a store call made by the refresh it started, adds a
\* notification of this registry
PeerNoticeQuiet ==
  \A m \in bus.queue :
    (m.id = PeerId /\ Deliver(m)) =>
      (bus'.published = bus.published /\ bus'.queue = bus.queue \ {m})

RefreshQuiet ==
  \A op \in storeOps :
    (op.cont.who = "refresh" /\ \E ok \in BOOLEAN : StoreDone(op, ok)) =>
      (bus'.published = bus.published /\ bus'.queue = bus.queue)

C39_PeerQuiet == [][PeerNoticeQuiet /\ RefreshQuiet]_vars

\* a peer's remove notification was delivered for a session of the live
\* index, and a peer's refresh-rooms notification for a session with a
\* socket bound
C39_Witness ==
  /\ \E note \in bus.heard :
       note.msg.id = PeerId /\ note.msg.channel = "remove" /\ note.known
  /\ \E note \in bus.heard :
       note.msg.id = PeerId /\ note.msg.channel = "refreshrooms" /\ note.socks # {}

\* C33 (as stated): joinRooms and leaveRooms change the room set of the
\* session and apply the join or leave to every socket bound to it, and
\* publish nothing themselves; the refresh-rooms notification, with this
\* registry's id and the session's id, is published when the save of the
\* rooms has put the changed room set in the store, and not when it failed
BoundSockets(o) == UNION {socketIndex[i] : i \in {j \in Ids : sessionIndex[j] = o}}

RoomsApplied ==
  \A o \in Objs, room \in Rooms :
    /\ SessionJoinRooms(o, room) =>
         (/\ room \in sessions'[o].data.rooms
          /\ \A c \in BoundSockets(o) : room \in sockets'[c].rooms
          /\ bus'.published = bus.published)
    /\ SessionLeaveRooms(o, room) =>
         (/\ room \notin sessions'[o].data.rooms
          /\ \A c \in BoundSockets(o) : room \notin sockets'[c].rooms
          /\ bus'.published = bus.published)

NoticeWhenPersisted ==
  \A op \in storeOps :
    (op.cont.save = "rooms" /\ (\E ok \in BOOLEAN : StoreDone(op, ok))
       /\ bus'.published # bus.published) =>
      (/\ bus'.published \ bus.published =
            {[channel |-> "refreshrooms", id |-> SelfId, sid |-> op.id]}
       /\ store'[op.id].present
       /\ store'[op.id].hasRooms
       /\ store'[op.id].rooms = op.snap.rooms)

C33_RoomsThenNotice == [][RoomsApplied /\ NoticeWhenPersisted]_vars

====
